---- MODULE Spec2Model ----
(***************************************************************************)
(* A model of the values engine of hvu (Helm Values Upgrade):             *)
(* pkg/values/values.go (the path codec Flatten / Unflatten, Classify,    *)
(* Merge) and pkg/values/images.go (DetectCustomImageTags).               *)
(*                                                                         *)
(* Go strings are modelled as sequences of one-character strings, so that  *)
(* strings.Split, strings.Count, strings.ReplaceAll, strings.HasPrefix and *)
(* the byte-wise order of Go's < on strings are computed as Go computes    *)
(* them.  A Go value of type interface{} is a record [kind, v]: kind is    *)
(* the dynamic type and v the payload (a string for a scalar, a sequence   *)
(* of values for a []interface{}, a function from keys to values for a     *)
(* map[string]interface{}).  A Values map is a function from paths to      *)
(* values.  Go's map iteration order is unspecified: every loop whose      *)
(* result can depend on it takes the order as a parameter, and the action  *)
(* that runs the loop picks the order nondeterministically.                *)
(***************************************************************************)
EXTENDS Integers, Sequences, FiniteSets, TLC

VARIABLES
    pc,           \* which operation ran last
    userValues,   \* the user's flat document
    oldDefaults,  \* the flat baseline the user document is compared against
    newDefaults,  \* the flat baseline of the target version
    merged,       \* the Values returned by Merge
    result,       \* the ClassificationResult returned by Classify
    result2,      \* the ClassificationResult returned by a second call of Classify
    changes,      \* the []ImageChange returned by DetectCustomImageTags
    tree,         \* a nested document, the input of Flatten
    flat,         \* a flat document, the output of Flatten and the input of Unflatten
    nested,       \* the nested document returned by Unflatten
    rawText,      \* the raw text of a chart's values file, as ExtractComments reads it
    comments,     \* the CommentMap returned by ExtractComments
    annotated,    \* the keys that attachCommentsToNode gave a HeadComment, with the comment
    input,        \* the UpgradeInput of a run of service.Upgrade
    fetched,      \* the chart versions whose retrieval has started, with the outcome
    output,       \* the UpgradeOutput returned by Upgrade, then by FinalizeUpgrade
    err,          \* the error returned by Upgrade or FinalizeUpgrade ("" for nil)
    fs,           \* the directories and the files created by the run
    rawKey,       \* a raw key segment, the argument of escapeKeyDots
    escaped,      \* the string returned by escapeKeyDots
    unescaped,    \* the string returned by unescapeKeyDots
    upgraded,     \* the Values returned by ApplyImageUpgrades
    upgraded2,    \* the Values returned by a second call of ApplyImageUpgrades
    repoConfig,   \* the entries of Helm's repository config file
    remote,       \* what the chart repository serves
    callPc,       \* the position of each call of GetValuesFileByVersion
    callName,     \* the repository name that each call found or generated
    callRepos,    \* the repo.File that each call of addNewRepo holds in memory
    callResult    \* what each call of GetValuesFileByVersion returned

valueVars ==
    <<pc, userValues, oldDefaults, newDefaults, merged, result, result2,
      changes, tree, flat, nested>>

commentVars == <<rawText, comments, annotated>>

serviceVars == <<input, fetched, output, err, fs>>

escapeVars == <<rawKey, escaped, unescaped>>

applyVars == <<upgraded, upgraded2>>

helmVars == <<repoConfig, remote, callPc, callName, callRepos, callResult>>

vars == <<valueVars, commentVars, serviceVars, escapeVars, applyVars, helmVars>>


-----------------------------------------------------------------------------
(* Go strings *)

\* The characters of the model in ascending byte order ('.' 0x2E, '0' 0x30,
\* ':' 0x3A, '\' 0x5C, then the lower-case letters).
CharOrder == <<".", "0", ":", "\\", "a", "b", "c", "d", "e", "g", "i", "m", "t">>

Ord(c) == CHOOSE i \in 1..Len(CharOrder) : CharOrder[i] = c

\* Go's s < t on strings: byte-wise lexicographic order.
RECURSIVE StrLess(_, _)
StrLess(s, t) ==
    IF t = << >> THEN FALSE
    ELSE IF s = << >> THEN TRUE
    ELSE IF Head(s) = Head(t) THEN StrLess(Tail(s), Tail(t))
    ELSE Ord(Head(s)) < Ord(Head(t))

\* strings.HasPrefix
HasPrefix(s, prefix) ==
    /\ Len(prefix) <= Len(s)
    /\ SubSeq(s, 1, Len(prefix)) = prefix

\* strings.HasSuffix
HasSuffix(s, suffix) ==
    /\ Len(suffix) <= Len(s)
    /\ SubSeq(s, Len(s) - Len(suffix) + 1, Len(s)) = suffix

\* strings.Split(s, sep) for a non-empty sep: the pieces between the leftmost
\* non-overlapping occurrences of sep; Split("", sep) is [""].
RECURSIVE SplitFrom(_, _, _)
SplitFrom(s, sep, acc) ==
    IF s = << >> THEN <<acc>>
    ELSE IF HasPrefix(s, sep)
         THEN <<acc>> \o SplitFrom(SubSeq(s, Len(sep) + 1, Len(s)), sep, << >>)
         ELSE SplitFrom(Tail(s), sep, Append(acc, Head(s)))

Split(s, sep) == SplitFrom(s, sep, << >>)

\* strings.Join
RECURSIVE Join(_, _)
Join(parts, sep) ==
    IF parts = << >> THEN << >>
    ELSE IF Len(parts) = 1 THEN parts[1]
    ELSE parts[1] \o sep \o Join(Tail(parts), sep)

\* strings.Count(s, sep) for a non-empty sep: non-overlapping occurrences.
StrCount(s, sep) == Len(Split(s, sep)) - 1

\* strings.ReplaceAll(s, old, new) for a non-empty old.
ReplaceAll(s, old, new) == Join(Split(s, old), new)

-----------------------------------------------------------------------------
(* Go values *)

StringValue(s) == [kind |-> "string", v |-> s]
IntValue(s)    == [kind |-> "int", v |-> s]
FloatValue(s)  == [kind |-> "float", v |-> s]
SeqValue(els)  == [kind |-> "seq", v |-> els]
MapValue(m)    == [kind |-> "map", v |-> m]
NilValue       == [kind |-> "nil", v |-> ""]

\* The empty map[string]interface{}: a map with no keys.
EmptyMap      == << >>
EmptyMapValue == MapValue(EmptyMap)
EmptySeqValue == SeqValue(<< >>)

\* emptyMap, ok := val.(map[string]interface{}); ok && len(emptyMap) == 0
IsEmptyMap(val) == val.kind = "map" /\ DOMAIN val.v = {}

\* m[key] = val on a map modelled as a function
MapSet(m, key, val) ==
    [k \in DOMAIN m \cup {key} |-> IF k = key THEN val ELSE m[k]]

\* reflect.DeepEqual on values decoded from YAML: the same dynamic type and
\* the same contents, element by element; a float NaN equals nothing.
RECURSIVE DeepEqual(_, _)
DeepEqual(a, b) ==
    IF a.kind # b.kind THEN FALSE
    ELSE IF a.kind = "seq"
         THEN /\ Len(a.v) = Len(b.v)
              /\ \A i \in 1..Len(a.v) : DeepEqual(a.v[i], b.v[i])
    ELSE IF a.kind = "map"
         THEN /\ DOMAIN a.v = DOMAIN b.v
              /\ \A k \in DOMAIN a.v : DeepEqual(a.v[k], b.v[k])
    ELSE IF a.kind = "float" /\ a.v = "NaN" THEN FALSE
    ELSE a.v = b.v

\* ValuesEqual comparing with ==, which holds for scalars only.
ValuesEqual_ScalarsOnly(a, b) ==
    IF a.kind = "nil" /\ b.kind = "nil" THEN TRUE
    ELSE IF a.kind = "nil" \/ b.kind = "nil" THEN FALSE
    ELSE a.kind = b.kind /\ a.kind \notin {"map", "seq"} /\ a.v = b.v

\* ValuesEqual comparing scalars by their text, whatever their types.
ValuesEqual_Coercing(a, b) ==
    IF a.kind = "nil" /\ b.kind = "nil" THEN TRUE
    ELSE IF a.kind = "nil" \/ b.kind = "nil" THEN FALSE
    ELSE IF a.kind \in {"string", "int"} /\ b.kind \in {"string", "int"} THEN a.v = b.v
    ELSE DeepEqual(a, b)

ValuesEqual(a, b) ==
    IF a.kind = "nil" /\ b.kind = "nil" THEN TRUE
    ELSE IF a.kind = "nil" \/ b.kind = "nil" THEN FALSE
    ELSE DeepEqual(a, b)

-----------------------------------------------------------------------------
(* The path codec *)

pathSeparator == <<":", ":">>

\* escapeKeyDots escaping the dots of the key, as its name says.
escapeKeyDots_Dots(key) == ReplaceAll(key, <<".">>, <<"\\", ".">>)

escapeKeyDots(key) == ReplaceAll(key, pathSeparator, <<"\\">> \o pathSeparator)

unescapeKeyDots(key) == ReplaceAll(key, <<"\\">> \o pathSeparator, pathSeparator)

\* strings.Join(parts[:i], pathSeparator)
JoinFirst(parts, i) == Join(SubSeq(parts, 1, i), pathSeparator)

\* PathToDisplayFormat
PathToDisplayFormat(path) == ReplaceAll(path, pathSeparator, <<".">>)

-----------------------------------------------------------------------------
(* Classify *)

Customized    == "CUSTOMIZED"
CopiedDefault == "COPIED_DEFAULT"
Unknown       == "UNKNOWN"

\* findParentEmptyMap looking at the immediate parent only.
findParentEmptyMap_ImmediateOnly(path, defaults) ==
    LET parts  == Split(path, pathSeparator)
        parent == JoinFirst(parts, Len(parts) - 1)
    IN  IF /\ Len(parts) >= 2
           /\ parent \in DOMAIN defaults
           /\ IsEmptyMap(defaults[parent])
        THEN parent
        ELSE << >>

\* findParentEmptyMap: the closest proper ancestor of path that defaults
\* stores as an empty map, or "" (the empty string) when there is none.
findParentEmptyMap(path, defaults) ==
    LET parts == Split(path, pathSeparator)
        hits  == {i \in 1..(Len(parts) - 1) :
                     /\ JoinFirst(parts, i) \in DOMAIN defaults
                     /\ IsEmptyMap(defaults[JoinFirst(parts, i)])}
    IN  IF hits = {} THEN << >>
        ELSE JoinFirst(parts, CHOOSE i \in hits : \A j \in hits : j <= i)

\* findParentWithChildren looking at the immediate parent only.
findParentWithChildren_ImmediateOnly(path, defaults) ==
    LET parts  == Split(path, pathSeparator)
        parent == JoinFirst(parts, Len(parts) - 1)
    IN  IF /\ Len(parts) >= 2
           /\ \E defaultPath \in DOMAIN defaults :
                  HasPrefix(defaultPath, parent \o pathSeparator)
        THEN parent
        ELSE << >>

\* findParentWithChildren: the closest proper ancestor of path under which
\* defaults holds some path, or "" when there is none.
findParentWithChildren(path, defaults) ==
    LET parts == Split(path, pathSeparator)
        hits  == {i \in 1..(Len(parts) - 1) :
                     \E defaultPath \in DOMAIN defaults :
                         HasPrefix(defaultPath, JoinFirst(parts, i) \o pathSeparator)}
    IN  IF hits = {} THEN << >>
        ELSE JoinFirst(parts, CHOOSE i \in hits : \A j \in hits : j <= i)

\* The body of Classify's loop for one path: the ClassifiedValue it appends.
classifyEntry(path, userVal, defaultValues) ==
    IF path \in DOMAIN defaultValues
    THEN [Path |-> path, UserValue |-> userVal,
          DefaultValue |-> defaultValues[path],
          Classification |-> IF ValuesEqual(userVal, defaultValues[path])
                             THEN CopiedDefault ELSE Customized]
    ELSE IF findParentEmptyMap(path, defaultValues) # << >>
    THEN [Path |-> path, UserValue |-> userVal, DefaultValue |-> NilValue,
          Classification |-> Customized]
    ELSE IF findParentWithChildren(path, defaultValues) # << >>
    THEN [Path |-> path, UserValue |-> userVal, DefaultValue |-> NilValue,
          Classification |-> Customized]
    ELSE [Path |-> path, UserValue |-> userVal, DefaultValue |-> NilValue,
          Classification |-> Unknown]

\* The less function of Classify's sort.Slice.
entryLess(e1, e2) == StrLess(e1.Path, e2.Path)

\* sort.Slice(result.Entries, less): the paths of the entries are pairwise
\* different, so the sorted order does not depend on the sorting algorithm.
RECURSIVE insertEntry(_, _)
insertEntry(sorted, e) ==
    IF sorted = << >> THEN <<e>>
    ELSE IF entryLess(e, Head(sorted)) THEN <<e>> \o sorted
    ELSE <<Head(sorted)>> \o insertEntry(Tail(sorted), e)

RECURSIVE sortEntries(_)
sortEntries(entries) ==
    IF entries = << >> THEN << >>
    ELSE insertEntry(sortEntries(Tail(entries)), Head(entries))

\* Classify's loop without the increment of result.Customized in the branch
\* of the parent with children.
RECURSIVE classifyLoop_ParentWithChildrenUncounted(_, _, _, _)
classifyLoop_ParentWithChildrenUncounted(order, userVals, defaultValues, res) ==
    IF order = << >> THEN res
    ELSE LET entry == classifyEntry(Head(order), userVals[Head(order)], defaultValues)
             c     == entry.Classification
             uncounted ==
                 /\ Head(order) \notin DOMAIN defaultValues
                 /\ findParentEmptyMap(Head(order), defaultValues) = << >>
                 /\ findParentWithChildren(Head(order), defaultValues) # << >>
         IN  classifyLoop_ParentWithChildrenUncounted(Tail(order), userVals, defaultValues,
                 [Entries       |-> Append(res.Entries, entry),
                  Customized    |-> res.Customized
                                    + (IF c = Customized /\ ~uncounted THEN 1 ELSE 0),
                  CopiedDefault |-> res.CopiedDefault + (IF c = CopiedDefault THEN 1 ELSE 0),
                  Unknown       |-> res.Unknown + (IF c = Unknown THEN 1 ELSE 0),
                  Total         |-> res.Total + 1])

\* Classify's loop looking for the parents of a path among the other paths
\* of userValues too.
RECURSIVE classifyLoop_ParentsFromUser(_, _, _, _)
classifyLoop_ParentsFromUser(order, userVals, defaultValues, res) ==
    IF order = << >> THEN res
    ELSE LET others == (DOMAIN userVals \ {Head(order)}) \ DOMAIN defaultValues
             seen  == [q \in DOMAIN defaultValues \cup others |->
                          IF q \in DOMAIN defaultValues THEN defaultValues[q]
                          ELSE userVals[q]]
             entry == classifyEntry(Head(order), userVals[Head(order)], seen)
             c     == entry.Classification
         IN  classifyLoop_ParentsFromUser(Tail(order), userVals, defaultValues,
                 [Entries       |-> Append(res.Entries, entry),
                  Customized    |-> res.Customized + (IF c = Customized THEN 1 ELSE 0),
                  CopiedDefault |-> res.CopiedDefault + (IF c = CopiedDefault THEN 1 ELSE 0),
                  Unknown       |-> res.Unknown + (IF c = Unknown THEN 1 ELSE 0),
                  Total         |-> res.Total + 1])

\* Classify's loop over userValues, visiting the paths in the given order.
RECURSIVE classifyLoop(_, _, _, _)
classifyLoop(order, userVals, defaultValues, res) ==
    IF order = << >> THEN res
    ELSE LET entry == classifyEntry(Head(order), userVals[Head(order)], defaultValues)
             c     == entry.Classification
         IN  classifyLoop(Tail(order), userVals, defaultValues,
                 [Entries       |-> Append(res.Entries, entry),
                  Customized    |-> res.Customized + (IF c = Customized THEN 1 ELSE 0),
                  CopiedDefault |-> res.CopiedDefault + (IF c = CopiedDefault THEN 1 ELSE 0),
                  Unknown       |-> res.Unknown + (IF c = Unknown THEN 1 ELSE 0),
                  Total         |-> res.Total + 1])

EmptyResult ==
    [Entries |-> << >>, Customized |-> 0, CopiedDefault |-> 0, Unknown |-> 0, Total |-> 0]

\* Classify without the final sort.Slice.
Classify_Unsorted(userVals, defaultValues, order) ==
    classifyLoop(order, userVals, defaultValues, EmptyResult)

\* Classify(userValues, defaultValues), the range loop visiting the paths of
\* userValues in the given order.
Classify(userVals, defaultValues, order) ==
    LET looped == classifyLoop(order, userVals, defaultValues, EmptyResult)
    IN  [looped EXCEPT !.Entries = sortEntries(looped.Entries)]

-----------------------------------------------------------------------------
(* Merge *)

\* findCustomizedParentMaps: the set of the keys of the map it returns.
findCustomizedParentMaps(userVals, oldDefs) ==
    LET parentOf(userPath) ==
            LET parts == Split(userPath, pathSeparator)
            IN  JoinFirst(parts, Len(parts) - 1)
        replaces(userPath) ==
            /\ userPath \notin DOMAIN oldDefs
            /\ Len(Split(userPath, pathSeparator)) >= 2
            /\ ~(/\ parentOf(userPath) \in DOMAIN oldDefs
                 /\ IsEmptyMap(oldDefs[parentOf(userPath)]))
            /\ \E oldPath \in DOMAIN oldDefs :
                   /\ HasPrefix(oldPath, parentOf(userPath) \o pathSeparator)
                   /\ oldPath # userPath
    IN  {parentOf(userPath) : userPath \in {u \in DOMAIN userVals : replaces(u)}}

isUnderCustomizedParent(path, customizedParents) ==
    LET parts == Split(path, pathSeparator)
    IN  \E i \in 1..(Len(parts) - 1) : JoinFirst(parts, i) \in customizedParents

\* Merge with the overlay limited to the paths that oldDefaults lacks: the
\* test of ValuesEqual forgotten.
Merge_OverlayOnlyNewPaths(userVals, oldDefs, newDefs) ==
    LET customizedParents == findCustomizedParentMaps(userVals, oldDefs)
        kept    == {path \in DOMAIN newDefs :
                       ~isUnderCustomizedParent(path, customizedParents)}
        overlay == {path \in DOMAIN userVals : path \notin DOMAIN oldDefs}
    IN  [path \in kept \cup overlay |->
            IF path \in overlay THEN userVals[path] ELSE newDefs[path]]

\* Merge with the overlay limited to the paths that oldDefaults holds: the
\* test of existsInOld inverted.
Merge_OverlayOnlyOldPaths(userVals, oldDefs, newDefs) ==
    LET customizedParents == findCustomizedParentMaps(userVals, oldDefs)
        kept    == {path \in DOMAIN newDefs :
                       ~isUnderCustomizedParent(path, customizedParents)}
        overlay == {path \in DOMAIN userVals :
                       /\ path \in DOMAIN oldDefs
                       /\ ~ValuesEqual(userVals[path], oldDefs[path])}
    IN  [path \in kept \cup overlay |->
            IF path \in overlay THEN userVals[path] ELSE newDefs[path]]

Merge(userVals, oldDefs, newDefs) ==
    LET customizedParents == findCustomizedParentMaps(userVals, oldDefs)
        kept    == {path \in DOMAIN newDefs :
                       ~isUnderCustomizedParent(path, customizedParents)}
        overlay == {path \in DOMAIN userVals :
                       \/ path \notin DOMAIN oldDefs
                       \/ ~ValuesEqual(userVals[path], oldDefs[path])}
    IN  [path \in kept \cup overlay |->
            IF path \in overlay THEN userVals[path] ELSE newDefs[path]]

-----------------------------------------------------------------------------
(* DetectCustomImageTags *)

imageTagPatterns ==
    << <<":", ":", "t", "a", "g">>,
       <<":", ":", "i", "m", "a", "g", "e", ":", ":", "t", "a", "g">> >>

isImageTagPath(path) ==
    \E i \in 1..Len(imageTagPatterns) : HasSuffix(path, imageTagPatterns[i])

\* The body of the loop without the test of isCustomized: a change is
\* reported whenever the default tag moved.
detectOne_DefaultMoved(path, userVals, oldDefs, newDefs) ==
    IF ~isImageTagPath(path) THEN << >>
    ELSE IF userVals[path].kind # "string" THEN << >>
    ELSE IF path \notin DOMAIN oldDefs \/ path \notin DOMAIN newDefs THEN << >>
    ELSE IF oldDefs[path].kind # "string" \/ newDefs[path].kind # "string" THEN << >>
    ELSE IF newDefs[path].v # oldDefs[path].v
    THEN << [Path         |-> path,
             UserTag      |-> userVals[path].v,
             OldDefault   |-> oldDefs[path].v,
             NewDefault   |-> newDefs[path].v,
             IsCustomized |-> TRUE] >>
    ELSE << >>

\* The body of DetectCustomImageTags's loop for one path: the ImageChanges
\* it appends (none or one).
detectOne(path, userVals, oldDefs, newDefs) ==
    IF ~isImageTagPath(path) THEN << >>
    ELSE IF userVals[path].kind # "string" THEN << >>
    ELSE IF path \notin DOMAIN oldDefs \/ path \notin DOMAIN newDefs THEN << >>
    ELSE IF oldDefs[path].kind # "string" \/ newDefs[path].kind # "string" THEN << >>
    ELSE IF userVals[path].v # oldDefs[path].v /\ newDefs[path].v # oldDefs[path].v
    THEN << [Path         |-> path,
             UserTag      |-> userVals[path].v,
             OldDefault   |-> oldDefs[path].v,
             NewDefault   |-> newDefs[path].v,
             IsCustomized |-> TRUE] >>
    ELSE << >>

\* DetectCustomImageTags(userValues, oldDefaults, newDefaults), the range
\* loop visiting the paths of userValues in the given order.
RECURSIVE DetectCustomImageTags(_, _, _, _)
DetectCustomImageTags(userVals, oldDefs, newDefs, order) ==
    IF order = << >> THEN << >>
    ELSE detectOne(Head(order), userVals, oldDefs, newDefs)
         \o DetectCustomImageTags(userVals, oldDefs, newDefs, Tail(order))

-----------------------------------------------------------------------------
(* Flatten and Unflatten *)

\* flatten(prefix, data, result): the writes result[fullKey] = value it makes,
\* as a set of <<fullKey, value>>.
RECURSIVE flatten(_, _)
flatten(prefix, data) ==
    LET fullKey(key) == IF prefix # << >>
                        THEN prefix \o pathSeparator \o escapeKeyDots(key)
                        ELSE escapeKeyDots(key)
        writes(key)  == IF data[key].kind = "map"
                        THEN IF DOMAIN data[key].v = {}
                             THEN {<<fullKey(key), EmptyMapValue>>}
                             ELSE flatten(fullKey(key), data[key].v)
                        ELSE {<<fullKey(key), data[key]>>}
    IN  UNION {writes(key) : key \in DOMAIN data}

\* Flatten(data): the Values it can return.  Two writes to one fullKey happen
\* in the order of the map iteration, and the last one stays: every choice of
\* one written value per key is a possible result.
Flatten(data) ==
    LET writes == flatten(<< >>, data)
        keys   == {w[1] : w \in writes}
    IN  {f \in [keys -> {w[2] : w \in writes}] : \A k \in keys : <<k, f[k]>> \in writes}

\* The less function of Unflatten's sort.Slice: deeper paths first, paths of
\* one depth in ascending order.
pathLess(p, q) ==
    LET depthI == StrCount(p, pathSeparator)
        depthJ == StrCount(q, pathSeparator)
    IN  IF depthI # depthJ THEN depthI > depthJ ELSE StrLess(p, q)

RECURSIVE insertPath(_, _)
insertPath(sorted, p) ==
    IF sorted = << >> THEN <<p>>
    ELSE IF pathLess(p, Head(sorted)) THEN <<p>> \o sorted
    ELSE <<Head(sorted)>> \o insertPath(Tail(sorted), p)

RECURSIVE sortPaths(_)
sortPaths(paths) ==
    IF paths = << >> THEN << >>
    ELSE insertPath(sortPaths(Tail(paths)), Head(paths))

\* Unflatten's inner loop over the parts of one path, from the map current.
RECURSIVE setPath(_, _, _)
setPath(current, parts, value) ==
    LET originalKey == unescapeKeyDots(Head(parts))
    IN  IF Len(parts) = 1
        THEN IF originalKey \notin DOMAIN current
             THEN MapSet(current, originalKey, value)
             ELSE IF IsEmptyMap(value)
             THEN current
             ELSE MapSet(current, originalKey, value)
        ELSE LET nestedMap == IF /\ originalKey \in DOMAIN current
                                 /\ current[originalKey].kind = "map"
                              THEN current[originalKey].v
                              ELSE EmptyMap
             IN  MapSet(current, originalKey,
                        MapValue(setPath(nestedMap, Tail(parts), value)))

RECURSIVE unflattenLoop(_, _, _)
unflattenLoop(paths, flatVals, res) ==
    IF paths = << >> THEN res
    ELSE unflattenLoop(Tail(paths), flatVals,
             setPath(res, Split(Head(paths), pathSeparator), flatVals[Head(paths)]))

\* Unflatten(flat), the range loop collecting the paths in the given order.
Unflatten(flatVals, order) == unflattenLoop(sortPaths(order), flatVals, EmptyMap)

-----------------------------------------------------------------------------
(* Inputs *)

\* The path whose segments are the given keys.
PathOf(keys) == Join(keys, pathSeparator)

\* The orders in which a range loop can visit the keys of a map.
Orders(S) ==
    {f \in [1..Cardinality(S) -> S] : \A i, j \in DOMAIN f : f[i] = f[j] => i = j}

KeyA     == <<"a">>
KeyA0    == <<"a", "0">>
KeyB     == <<"b">>
KeyC     == <<"c">>
KeyD     == <<"d">>
KeyTag   == <<"t", "a", "g">>
KeyImage == <<"i", "m", "a", "g", "e">>

\* The number of entries of the three documents of a merge, together.
MaxMergeEntries == 4

MergePaths ==
    {PathOf(<<KeyA>>), PathOf(<<KeyA, KeyB>>), PathOf(<<KeyA, KeyC>>),
     PathOf(<<KeyA, KeyB, KeyC>>), PathOf(<<KeyD>>)}

MergeValues == {StringValue("1"), StringValue("2"), EmptyMapValue}

\* The number of entries of the two documents of a classification, together.
MaxClassifyEntries == 4

ClassifyPaths ==
    {PathOf(<<KeyA>>), PathOf(<<KeyA0>>), PathOf(<<KeyA, KeyB>>),
     PathOf(<<KeyA, KeyC>>), PathOf(<<KeyA, KeyB, KeyC>>)}

ClassifyValues == {StringValue("1"), IntValue("1"), EmptyMapValue}

NoResult  == EmptyResult
NoValues  == << >>

-----------------------------------------------------------------------------
(* Merge applied to bounded documents *)

\* The state of the comment propagator, of the upgrade service, of the key
\* escaping, of ApplyImageUpgrades and of the Helm client while none has run.
NoText == [lines |-> << >>, root |-> [kind |-> "scalar", content |-> << >>]]
NoComments == << >>
NoInput == [FromVersion |-> "", ToVersion |-> "", DryRun |-> FALSE,
            UpgradeImages |-> FALSE]
NoPath == << >>
NoYAML == [kind |-> "empty", tree |-> << >>, heads |-> {}]
NoOutput == [UpgradedYAML |-> NoYAML, OutputPath |-> NoPath]
NoFiles == [dirs |-> {}, files |-> << >>]
NoRemote == [direct |-> FALSE, reachable |-> FALSE, versions |-> {}]

CommentsUnused ==
    /\ rawText = NoText
    /\ comments = NoComments
    /\ annotated = {}

ServiceUnused ==
    /\ input = NoInput
    /\ fetched = << >>
    /\ output = NoOutput
    /\ err = ""
    /\ fs = NoFiles

EscapeUnused ==
    /\ rawKey = << >>
    /\ escaped = << >>
    /\ unescaped = << >>

ApplyUnused ==
    /\ upgraded = NoValues
    /\ upgraded2 = NoValues

HelmUnused ==
    /\ repoConfig = << >>
    /\ remote = NoRemote
    /\ callPc = << >>
    /\ callName = << >>
    /\ callRepos = << >>
    /\ callResult = << >>

Init ==
    /\ CommentsUnused
    /\ ServiceUnused
    /\ EscapeUnused /\ ApplyUnused /\ HelmUnused
    /\ pc = "input"
    /\ \E U, O, N \in SUBSET MergePaths :
           /\ Cardinality(U) + Cardinality(O) + Cardinality(N) <= MaxMergeEntries
           /\ userValues \in [U -> MergeValues]
           /\ oldDefaults \in [O -> MergeValues]
           /\ newDefaults \in [N -> MergeValues]
    /\ merged = NoValues
    /\ result = NoResult
    /\ result2 = NoResult
    /\ changes = << >>
    /\ tree = EmptyMap
    /\ flat = NoValues
    /\ nested = EmptyMap

DoMerge ==
    /\ pc = "input"
    /\ merged' = Merge(userValues, oldDefaults, newDefaults)
    /\ pc' = "merged"
    /\ UNCHANGED <<userValues, oldDefaults, newDefaults, result, result2,
                   changes, tree, flat, nested>>
    /\ UNCHANGED <<commentVars, serviceVars, escapeVars, applyVars, helmVars>>

Next == DoMerge

Spec == Init /\ [][Next]_vars

\* The verdict of Classify(userValues, oldDefaults) on a path of userValues.
VerdictOf(path) ==
    LET res  == Classify(userValues, oldDefaults,
                         CHOOSE order \in Orders(DOMAIN userValues) : TRUE)
        at   == CHOOSE i \in 1..Len(res.Entries) : res.Entries[i].Path = path
    IN  res.Entries[at].Classification

\* C1 (Merge preservation): after Merge, every path of userValues that
\* oldDefaults holds with a value not deep-equal to the user's holds the
\* user's value in the result, whatever newDefaults holds at the path.
MergePreservation ==
    pc = "merged" =>
        \A p \in DOMAIN userValues :
            (p \in DOMAIN oldDefaults /\ ~DeepEqual(userValues[p], oldDefaults[p]))
            => (p \in DOMAIN merged /\ merged[p] = userValues[p])

\* A customized path whose default changed to a third value.
MergePreservationWitness ==
    /\ pc = "merged"
    /\ \E p \in DOMAIN userValues :
           /\ p \in DOMAIN oldDefaults /\ p \in DOMAIN newDefaults
           /\ ~DeepEqual(userValues[p], oldDefaults[p])
           /\ ~DeepEqual(newDefaults[p], oldDefaults[p])
           /\ ~DeepEqual(newDefaults[p], userValues[p])
           /\ merged[p] = userValues[p]

\* C2 (Merge default-adoption): after Merge, every path whose user value is
\* deep-equal to the value of oldDefaults and that newDefaults holds is in the
\* result with the value of newDefaults, whatever else the documents hold.
MergeDefaultAdoption ==
    pc = "merged" =>
        \A p \in DOMAIN userValues :
            (/\ p \in DOMAIN oldDefaults
             /\ DeepEqual(userValues[p], oldDefaults[p])
             /\ p \in DOMAIN newDefaults)
            => (p \in DOMAIN merged /\ merged[p] = newDefaults[p])

\* C3 (Merge conservation): after Merge, every path that
\* Classify(userValues, oldDefaults) classifies Unknown is in the result with
\* the user's value, for every newDefaults.
MergeConservation ==
    pc = "merged" =>
        \A p \in DOMAIN userValues :
            VerdictOf(p) = Unknown
            => (p \in DOMAIN merged /\ merged[p] = userValues[p])

\* An Unknown path that newDefaults holds with another value, beside an
\* Unknown nested path.
MergeConservationWitness ==
    /\ pc = "merged"
    /\ \E p, q \in DOMAIN userValues :
           /\ p # q
           /\ VerdictOf(p) = Unknown /\ VerdictOf(q) = Unknown
           /\ p \in DOMAIN newDefaults /\ newDefaults[p] # userValues[p]
           /\ Len(Split(q, pathSeparator)) >= 2
           /\ merged[p] = userValues[p] /\ merged[q] = userValues[q]

-----------------------------------------------------------------------------
(* Classify applied to bounded documents, twice *)

InitClassify ==
    /\ CommentsUnused
    /\ ServiceUnused
    /\ EscapeUnused /\ ApplyUnused /\ HelmUnused
    /\ pc = "input"
    /\ \E U, O \in SUBSET ClassifyPaths :
           /\ Cardinality(U) + Cardinality(O) <= MaxClassifyEntries
           /\ userValues \in [U -> ClassifyValues]
           /\ oldDefaults \in [O -> ClassifyValues]
    /\ newDefaults = NoValues
    /\ merged = NoValues
    /\ result = NoResult
    /\ result2 = NoResult
    /\ changes = << >>
    /\ tree = EmptyMap
    /\ flat = NoValues
    /\ nested = EmptyMap

DoClassify ==
    /\ pc = "input"
    /\ \E order \in Orders(DOMAIN userValues) :
           result' = Classify(userValues, oldDefaults, order)
    /\ pc' = "classified"
    /\ UNCHANGED <<userValues, oldDefaults, newDefaults, merged, result2,
                   changes, tree, flat, nested>>
    /\ UNCHANGED <<commentVars, serviceVars, escapeVars, applyVars, helmVars>>

DoClassifyAgain ==
    /\ pc = "classified"
    /\ \E order \in Orders(DOMAIN userValues) :
           result2' = Classify(userValues, oldDefaults, order)
    /\ pc' = "classifiedTwice"
    /\ UNCHANGED <<userValues, oldDefaults, newDefaults, merged, result,
                   changes, tree, flat, nested>>
    /\ UNCHANGED <<commentVars, serviceVars, escapeVars, applyVars, helmVars>>

NextClassify == DoClassify \/ DoClassifyAgain

SpecClassify == InitClassify /\ [][NextClassify]_vars

\* A proper ancestor of a path: a path followed by the separator and more.
IsProperAncestor(ancestor, path) == HasPrefix(path, ancestor \o pathSeparator)

EntryIndexes == 1..Len(result.Entries)

\* C6 (exact-match law): when every path of userValues is in the baseline
\* with a deep-equal value, Classify counts no Unknown, no Customized, and as
\* many CopiedDefault as userValues has paths.
ExactMatchLaw ==
    (/\ pc = "classified"
     /\ \A p \in DOMAIN userValues :
            p \in DOMAIN oldDefaults /\ DeepEqual(userValues[p], oldDefaults[p]))
    => (/\ result.Unknown = 0
        /\ result.Customized = 0
        /\ result.CopiedDefault = Cardinality(DOMAIN userValues))

\* Two matching paths, one of them an empty map.
ExactMatchLawWitness ==
    /\ pc = "classified"
    /\ Cardinality(DOMAIN userValues) = 2
    /\ \A p \in DOMAIN userValues :
           p \in DOMAIN oldDefaults /\ DeepEqual(userValues[p], oldDefaults[p])
    /\ \E p \in DOMAIN userValues : IsEmptyMap(userValues[p])
    /\ result.CopiedDefault = 2

EntriesInDisplayOrder ==
    pc = "classified" =>
        \A i, j \in EntryIndexes :
            i < j => StrLess(PathToDisplayFormat(result.Entries[i].Path),
                             PathToDisplayFormat(result.Entries[j].Path))

\* C9 (Classify is total and deterministic): Classify returns a result for
\* every pair of documents, with one entry for each path of userValues, and a
\* second call on the same documents returns the same result whatever the
\* order the maps are iterated in.
ClassifyTotalDeterministic ==
    /\ pc = "classified" =>
           /\ {result.Entries[i].Path : i \in EntryIndexes} = DOMAIN userValues
           /\ result.Total = Cardinality(DOMAIN userValues)
    /\ pc = "classifiedTwice" => result2 = result

\* Two calls on three paths, with values of mismatched kinds at a path.
ClassifyTotalDeterministicWitness ==
    /\ pc = "classifiedTwice"
    /\ Cardinality(DOMAIN userValues) = 3
    /\ \E p \in DOMAIN userValues :
           p \in DOMAIN oldDefaults /\ userValues[p].kind # oldDefaults[p].kind
    /\ result2 = result

-----------------------------------------------------------------------------
(* DetectCustomImageTags applied to bounded documents *)

\* The number of paths that the three documents of a detection hold, together.
MaxImagePaths == 2

ImagePaths ==
    {PathOf(<<KeyTag>>), PathOf(<<KeyImage, KeyTag>>),
     PathOf(<<KeyA, KeyImage, KeyTag>>)}

ImageValues == {StringValue("1.0"), StringValue("2.0"), IntValue("1")}

InitImages ==
    /\ CommentsUnused
    /\ ServiceUnused
    /\ EscapeUnused /\ ApplyUnused /\ HelmUnused
    /\ pc = "input"
    /\ \E U, O, N \in SUBSET ImagePaths :
           /\ Cardinality(U \cup O \cup N) <= MaxImagePaths
           /\ userValues \in [U -> ImageValues]
           /\ oldDefaults \in [O -> ImageValues]
           /\ newDefaults \in [N -> ImageValues]
    /\ merged = NoValues
    /\ result = NoResult
    /\ result2 = NoResult
    /\ changes = << >>
    /\ tree = EmptyMap
    /\ flat = NoValues
    /\ nested = EmptyMap

DoDetect ==
    /\ pc = "input"
    /\ \E order \in Orders(DOMAIN userValues) :
           changes' = DetectCustomImageTags(userValues, oldDefaults, newDefaults, order)
    /\ pc' = "detected"
    /\ UNCHANGED <<userValues, oldDefaults, newDefaults, merged, result,
                   result2, tree, flat, nested>>
    /\ UNCHANGED <<commentVars, serviceVars, escapeVars, applyVars, helmVars>>

NextImages == DoDetect

SpecImages == InitImages /\ [][NextImages]_vars

\* The last segment of a path is the key "tag".
EndsInTagSegment(path) ==
    LET parts == Split(path, pathSeparator) IN parts[Len(parts)] = KeyTag

\* A path with a tag to reconcile: a string in the three documents, the
\* user's differing from the old default, the old default from the new one.
TagToReconcile(path) ==
    /\ path \in DOMAIN userValues /\ userValues[path].kind = "string"
    /\ path \in DOMAIN oldDefaults /\ oldDefaults[path].kind = "string"
    /\ path \in DOMAIN newDefaults /\ newDefaults[path].kind = "string"
    /\ userValues[path].v # oldDefaults[path].v
    /\ oldDefaults[path].v # newDefaults[path].v

\* C10 (image-tag detection): DetectCustomImageTags returns exactly one
\* ImageChange, holding the three tags and IsCustomized, for each path of
\* userValues that ends in a tag segment and has a tag to reconcile, and no
\* ImageChange for any other path.
DetectExactlyTagChanges ==
    pc = "detected" =>
        /\ \A p \in DOMAIN userValues :
               (EndsInTagSegment(p) /\ TagToReconcile(p))
               => /\ Cardinality({i \in 1..Len(changes) : changes[i].Path = p}) = 1
                  /\ \E i \in 1..Len(changes) :
                         changes[i] = [Path         |-> p,
                                       UserTag      |-> userValues[p].v,
                                       OldDefault   |-> oldDefaults[p].v,
                                       NewDefault   |-> newDefaults[p].v,
                                       IsCustomized |-> TRUE]
        /\ \A i \in 1..Len(changes) :
               EndsInTagSegment(changes[i].Path) /\ TagToReconcile(changes[i].Path)

-----------------------------------------------------------------------------
(* Flatten and Unflatten applied to bounded documents *)

KeyADotB   == <<"a", ".", "b">>
KeyAColonB == <<"a", ":", ":", "b">>

CodecKeys == {KeyA, KeyB, KeyADotB, KeyAColonB}

\* The places of the leaves of a nested document: sequences of one or two keys.
TreeLeafPlaces ==
    {<<k>> : k \in CodecKeys} \cup {<<k1, k2>> : k1 \in CodecKeys, k2 \in CodecKeys}

\* The number of leaves of a nested document.
MaxLeaves == 2

CodecLeaves == {StringValue("1"), EmptyMapValue, SeqValue(<<StringValue("1")>>)}

\* No place of the set is a proper prefix of another one.
PrefixFree(places) ==
    \A x, y \in places : Len(x) < Len(y) => SubSeq(y, 1, Len(x)) # x

\* The nested document whose leaves are the given ones (a function from the
\* places of the leaves to their values).
RECURSIVE TreeOf(_)
TreeOf(leaves) ==
    LET heads == {place[1] : place \in DOMAIN leaves}
        below(k) == {place \in DOMAIN leaves : place[1] = k /\ Len(place) > 1}
    IN  [k \in heads |->
            IF <<k>> \in DOMAIN leaves THEN leaves[<<k>>]
            ELSE MapValue(TreeOf([rest \in {Tail(place) : place \in below(k)} |->
                                      leaves[<<k>> \o rest]]))]

\* The number of entries of a flat document handed to Unflatten.
MaxFlatEntries == 3

FlatPaths ==
    {PathOf(<<KeyA>>), PathOf(<<KeyA, KeyB>>), PathOf(<<KeyA, KeyC>>),
     PathOf(<<KeyA, KeyB, KeyC>>)}

FlatValues == {StringValue("1"), EmptyMapValue, EmptySeqValue}

InitCodec ==
    /\ CommentsUnused
    /\ ServiceUnused
    /\ EscapeUnused /\ ApplyUnused /\ HelmUnused
    /\ \/ /\ pc = "tree"
          /\ \E places \in SUBSET TreeLeafPlaces :
                 /\ Cardinality(places) <= MaxLeaves
                 /\ PrefixFree(places)
                 /\ \E leaves \in [places -> CodecLeaves] : tree = TreeOf(leaves)
          /\ flat = NoValues
       \/ /\ pc = "flat"
          /\ tree = EmptyMap
          /\ \E F \in SUBSET FlatPaths :
                 /\ Cardinality(F) <= MaxFlatEntries
                 /\ flat \in [F -> FlatValues]
    /\ userValues = NoValues
    /\ oldDefaults = NoValues
    /\ newDefaults = NoValues
    /\ merged = NoValues
    /\ result = NoResult
    /\ result2 = NoResult
    /\ changes = << >>
    /\ nested = EmptyMap

DoFlatten ==
    /\ pc = "tree"
    /\ flat' \in Flatten(tree)
    /\ pc' = "flattened"
    /\ UNCHANGED <<userValues, oldDefaults, newDefaults, merged, result,
                   result2, changes, tree, nested>>
    /\ UNCHANGED <<commentVars, serviceVars, escapeVars, applyVars, helmVars>>

DoUnflatten ==
    /\ pc \in {"flat", "flattened"}
    /\ \E order \in Orders(DOMAIN flat) : nested' = Unflatten(flat, order)
    /\ pc' = IF pc = "flat" THEN "unflattened" ELSE "roundtrip"
    /\ UNCHANGED <<userValues, oldDefaults, newDefaults, merged, result,
                   result2, changes, tree, flat>>
    /\ UNCHANGED <<commentVars, serviceVars, escapeVars, applyVars, helmVars>>

NextCodec == DoFlatten \/ DoUnflatten

SpecCodec == InitCodec /\ [][NextCodec]_vars

Absent == [kind |-> "absent", v |-> ""]

\* The value of a nested document at a place (a sequence of keys), or Absent.
RECURSIVE Lookup(_, _)
Lookup(m, place) ==
    IF place = << >> \/ place[1] \notin DOMAIN m THEN Absent
    ELSE IF Len(place) = 1 THEN m[place[1]]
    ELSE IF m[place[1]].kind = "map" THEN Lookup(m[place[1]].v, Tail(place))
    ELSE Absent

\* The keys of a flat path.
SegmentsOf(path) == Split(path, pathSeparator)

\* An empty-container marker: an empty mapping or an empty sequence.
IsEmptyContainer(val) == IsEmptyMap(val) \/ val = EmptySeqValue

\* C4 (children win over the empty marker): for a flat document with an
\* empty-container marker at P and entries at descendants of P, Unflatten
\* yields at P a mapping that holds every such descendant.
UnflattenKeepsChildren ==
    pc = "unflattened" =>
        \A P \in DOMAIN flat :
            (/\ IsEmptyContainer(flat[P])
             /\ \E d \in DOMAIN flat : IsProperAncestor(P, d))
            => /\ Lookup(nested, SegmentsOf(P)).kind = "map"
               /\ \A d \in DOMAIN flat :
                      IsProperAncestor(P, d) => Lookup(nested, SegmentsOf(d)) # Absent

\* The number of leaves of a nested document.
RECURSIVE LeafCount(_)
LeafCount(m) ==
    IF DOMAIN m = {} THEN 0
    ELSE LET k == CHOOSE key \in DOMAIN m : TRUE
             rest == [key \in DOMAIN m \ {k} |-> m[key]]
         IN  (IF m[k].kind = "map" /\ DOMAIN m[k].v # {} THEN LeafCount(m[k].v) ELSE 1)
             + LeafCount(rest)

\* The escaped keys of a nested document do not collide: its leaves flatten to
\* pairwise different paths.
NoCollision(m) == Cardinality({w[1] : w \in flatten(<< >>, m)}) = LeafCount(m)

\* C5 (round trip): Unflatten(Flatten(tree)) is structurally equal to tree,
\* for every nested document whose escaped keys do not collide.
RoundTrip ==
    (pc = "roundtrip" /\ NoCollision(tree))
    => DeepEqual(MapValue(nested), MapValue(tree))

-----------------------------------------------------------------------------
(* The upgrade of a values file, followed by the classification of the      *)
(* upgraded file against the target chart                                   *)

\* The number of entries that the three documents of an upgrade hold, together.
MaxUpgradeEntries == 3

\* A flat document that ParseYAML can return: Flatten stores a value at the
\* leaves of the parsed tree only, so no path of it lies under another one.
IsParsed(doc) ==
    \A p, q \in DOMAIN doc : ~IsProperAncestor(p, q)

\* ToYAML followed by ParseYAML: Unflatten, yaml.Marshal, yaml.Unmarshal and
\* Flatten.  The text that yaml.Marshal writes for a tree is read back by
\* yaml.Unmarshal as the same tree; the set holds every document that the
\* iteration orders of Unflatten and Flatten allow.
Reparsed(doc) ==
    UNION {Flatten(Unflatten(doc, order)) : order \in Orders(DOMAIN doc)}

InitUpgrade ==
    /\ CommentsUnused
    /\ ServiceUnused
    /\ EscapeUnused /\ ApplyUnused /\ HelmUnused
    /\ pc = "input"
    /\ \E U, O, N \in SUBSET MergePaths :
           /\ Cardinality(U) + Cardinality(O) + Cardinality(N) <= MaxUpgradeEntries
           /\ userValues \in [U -> MergeValues]
           /\ oldDefaults \in [O -> MergeValues]
           /\ newDefaults \in [N -> MergeValues]
    /\ IsParsed(userValues) /\ IsParsed(oldDefaults) /\ IsParsed(newDefaults)
    /\ merged = NoValues
    /\ result = NoResult
    /\ result2 = NoResult
    /\ changes = << >>
    /\ tree = EmptyMap
    /\ flat = NoValues
    /\ nested = EmptyMap

\* service.Upgrade on the three parsed documents: Classify against the old
\* defaults, Merge, the tree that ToYAML builds with Unflatten (nested) and
\* the upgraded file read back (flat), which is one of Reparsed(merged).
DoUpgrade ==
    /\ pc = "input"
    /\ \E order \in Orders(DOMAIN userValues) :
           result' = Classify(userValues, oldDefaults, order)
    /\ merged' = Merge(userValues, oldDefaults, newDefaults)
    /\ \E order \in Orders(DOMAIN merged') :
           /\ nested' = Unflatten(merged', order)
           /\ flat' \in Flatten(nested')
    /\ pc' = "upgraded"
    /\ UNCHANGED <<userValues, oldDefaults, newDefaults, result2, changes, tree>>
    /\ UNCHANGED <<commentVars, serviceVars, escapeVars, applyVars, helmVars>>

\* service.Classify of the upgraded file against the new defaults.
DoClassifyUpgraded ==
    /\ pc = "upgraded"
    /\ \E order \in Orders(DOMAIN flat) :
           result2' = Classify(flat, newDefaults, order)
    /\ pc' = "reclassified"
    /\ UNCHANGED <<userValues, oldDefaults, newDefaults, merged, result,
                   changes, tree, flat, nested>>
    /\ UNCHANGED <<commentVars, serviceVars, escapeVars, applyVars, helmVars>>

NextUpgrade == DoUpgrade \/ DoClassifyUpgraded

SpecUpgrade == InitUpgrade /\ [][NextUpgrade]_vars

\* C11 (customizations stay customizations): every path that Classify
\* reports Customized against the old defaults is reported Customized, with
\* the same user value, when the upgraded file is classified against the
\* new defaults.
CustomizationsStayCustomized ==
    pc = "reclassified" =>
        \A i \in 1..Len(result.Entries) :
            result.Entries[i].Classification = Customized
            => \E j \in 1..Len(result2.Entries) :
                   /\ result2.Entries[j].Path = result.Entries[i].Path
                   /\ result2.Entries[j].Classification = Customized
                   /\ ValuesEqual(result2.Entries[j].UserValue,
                                  result.Entries[i].UserValue)

-----------------------------------------------------------------------------
(* The comment propagator: ExtractComments and ToYAMLWithComments *)

\* strings.TrimSpace, for texts whose only white space is the space.
RECURSIVE TrimLeft(_)
TrimLeft(s) ==
    IF s # << >> /\ Head(s) = " " THEN TrimLeft(Tail(s)) ELSE s

RECURSIVE TrimRight(_)
TrimRight(s) ==
    IF s # << >> /\ s[Len(s)] = " " THEN TrimRight(SubSeq(s, 1, Len(s) - 1)) ELSE s

TrimSpace(s) == TrimRight(TrimLeft(s))

\* strings.TrimPrefix
TrimPrefix(s, prefix) ==
    IF HasPrefix(s, prefix) THEN SubSeq(s, Len(prefix) + 1, Len(s)) ELSE s

\* strings.Contains
Contains(s, substr) ==
    \E i \in 1..(Len(s) + 1) : HasPrefix(SubSeq(s, i, Len(s)), substr)

\* strings.SplitN(s, sep, 2): s cut at the first occurrence of sep.
SplitN2(s, sep) ==
    LET cuts == {i \in 1..Len(s) : HasPrefix(SubSeq(s, i, Len(s)), sep)}
    IN  IF cuts = {} THEN <<s>>
        ELSE LET i == CHOOSE c \in cuts : \A d \in cuts : c <= d
             IN  <<SubSeq(s, 1, i - 1), SubSeq(s, i + Len(sep), Len(s))>>

\* The literals of comments.go.
paramTag       == <<"@", "p", "a", "r", "a", "m", " ">>
paramLineStart == <<"#", "#", " ">> \o paramTag
headStart      == <<"#", "#", " ">>
appendMark     == <<" ", "|", " ">>
dot            == <<".">>
space          == <<" ">>

\* cleanComment
cleanComment(comment) ==
    LET bare == TrimSpace(TrimPrefix(TrimPrefix(TrimSpace(comment), <<"#", "#">>), <<"#">>))
        parts == SplitN2(TrimPrefix(bare, paramTag), space)
    IN  IF HasPrefix(bare, paramTag) /\ Len(parts) = 2 THEN parts[2] ELSE bare

\* The yaml.Node tree that yaml.Unmarshal builds from a raw text: a mapping
\* node holds its keys in the order of the text, each with the HeadComment
\* and the LineComment of its key node and with its value node.
ScalarNode == [kind |-> "scalar", content |-> << >>]
MappingNode(entries) == [kind |-> "mapping", content |-> entries]
SequenceNode(items) == [kind |-> "sequence", content |-> items]
DocumentNode(children) == [kind |-> "document", content |-> children]
MalformedNode == [kind |-> "error", content |-> << >>]
KeyEntry(key, head, line, value) ==
    [key |-> key, HeadComment |-> head, LineComment |-> line, value |-> value]

\* fullPath := key; if prefix != "" { fullPath = prefix + "." + key }
fullPathOf(prefix, key) ==
    IF prefix = << >> THEN key ELSE prefix \o dot \o key

\* extractCommentsFromNode: the CommentMap after the walk of node.
RECURSIVE extractCommentsFromNode(_, _, _)
RECURSIVE extractFromEntries(_, _, _)
RECURSIVE extractFromChildren(_, _, _)
extractCommentsFromNode(node, prefix, cm) ==
    IF node.kind \in {"document", "sequence"}
    THEN extractFromChildren(node.content, prefix, cm)
    ELSE IF node.kind = "mapping"
    THEN extractFromEntries(node.content, prefix, cm)
    ELSE cm

extractFromChildren(children, prefix, cm) ==
    IF children = << >> THEN cm
    ELSE extractFromChildren(Tail(children), prefix,
                             extractCommentsFromNode(Head(children), prefix, cm))

extractFromEntries(entries, prefix, cm) ==
    IF entries = << >> THEN cm
    ELSE LET e == Head(entries)
             fullPath == fullPathOf(prefix, e.key)
             withHead ==
                 IF e.HeadComment # << >>
                 THEN MapSet(cm, fullPath, cleanComment(e.HeadComment))
                 ELSE cm
             withLine ==
                 IF e.LineComment = << >> THEN withHead
                 ELSE IF fullPath \in DOMAIN withHead
                 THEN MapSet(withHead, fullPath,
                             withHead[fullPath] \o space \o cleanComment(e.LineComment))
                 ELSE MapSet(withHead, fullPath, cleanComment(e.LineComment))
         IN  extractFromEntries(Tail(entries), prefix,
                                extractCommentsFromNode(e.value, fullPath, withLine))

\* The body of extractParamComments' loop for one line of the text.
extractParamLine(line, cm) ==
    LET trimmed == TrimSpace(line)
        parts   == SplitN2(TrimPrefix(trimmed, paramLineStart), space)
        path    == parts[1]
        description == IF Len(parts) = 2 THEN parts[2] ELSE << >>
    IN  IF ~HasPrefix(trimmed, paramLineStart) \/ description = << >> THEN cm
        ELSE IF path \in DOMAIN cm /\ cm[path] # << >>
        THEN IF Contains(cm[path], description) THEN cm
             ELSE MapSet(cm, path, cm[path] \o appendMark \o description)
        ELSE MapSet(cm, path, description)

\* extractParamComments
RECURSIVE extractParamComments(_, _)
extractParamComments(lines, cm) ==
    IF lines = << >> THEN cm
    ELSE extractParamComments(Tail(lines), extractParamLine(Head(lines), cm))

\* ExtractComments: no comment at all when yaml.Unmarshal rejects the text.
ExtractComments(text) ==
    IF text.root.kind = "error" THEN NoComments
    ELSE extractParamComments(text.lines,
                              extractCommentsFromNode(text.root, << >>, NoComments))

\* A step from a node of a document to a node below it: to the value of a
\* key of a mapping, or to an element of a sequence.
KeyStep(key) == [key |-> key, index |-> 0]
IndexStep(i) == [key |-> << >>, index |-> i]

\* attachCommentsToNode on the node that Encode builds for a value: the
\* key nodes that get a HeadComment, each with the steps that lead to it,
\* the fullPath looked up in the CommentMap and the HeadComment.
RECURSIVE attachCommentsToNode(_, _, _, _)
attachCommentsToNode(val, prefix, at, cm) ==
    IF val.kind = "map"
    THEN UNION {LET fullPath == fullPathOf(prefix, key)
                    here == Append(at, KeyStep(key))
                IN  (IF fullPath \in DOMAIN cm /\ cm[fullPath] # << >>
                     THEN {[at |-> here, fullPath |-> fullPath,
                            HeadComment |-> headStart \o cm[fullPath]]}
                     ELSE {})
                    \cup attachCommentsToNode(val.v[key], fullPath, here, cm)
                : key \in DOMAIN val.v}
    ELSE IF val.kind = "seq"
    THEN UNION {attachCommentsToNode(val.v[i], prefix, Append(at, IndexStep(i)), cm)
                : i \in DOMAIN val.v}
    ELSE {}

\* A tagged comment line: ## @param <path> <description>
ParamLine(path, description) == paramLineStart \o path \o space \o description

\* The number of comment lines of a raw text.
MaxLines == 2

DescX == <<"x">>
DescY == <<"y">>

LinePool ==
    {ParamLine(KeyADotB, DescX), ParamLine(KeyADotB, DescY), ParamLine(KeyA, DescX),
     paramLineStart \o KeyADotB,
     <<" ", " ">> \o ParamLine(KeyB, DescX)}

\* The node trees of the raw texts: a: {b: 1} without a comment on a key,
\* with the tagged line of a.b as the head comment of a, with a head and a
\* line comment on b; the key a.b with a head comment; a text that
\* yaml.Unmarshal rejects.
RootPool ==
    {DocumentNode(<<MappingNode(<<KeyEntry(KeyA, << >>, << >>,
         MappingNode(<<KeyEntry(KeyB, << >>, << >>, ScalarNode)>>))>>)>>),
     DocumentNode(<<MappingNode(<<KeyEntry(KeyA, ParamLine(KeyADotB, DescY), << >>,
         MappingNode(<<KeyEntry(KeyB, << >>, << >>, ScalarNode)>>))>>)>>),
     DocumentNode(<<MappingNode(<<KeyEntry(KeyA, << >>, << >>,
         MappingNode(<<KeyEntry(KeyB, <<"#", " ">> \o DescY, <<"#", " ">> \o DescX,
                                ScalarNode)>>))>>)>>),
     DocumentNode(<<MappingNode(<<KeyEntry(KeyADotB, <<"#", " ">> \o DescY, << >>,
                                           ScalarNode)>>)>>),
     MalformedNode}

\* The documents handed to ToYAMLWithComments, as nested documents.
CommentTrees ==
    {EmptyMap,
     KeyA :> MapValue(KeyB :> StringValue("1")),
     KeyADotB :> StringValue("1"),
     (KeyA :> MapValue(KeyB :> StringValue("1"))) @@ (KeyADotB :> StringValue("1")),
     (KeyA :> MapValue(KeyB :> StringValue("1"))) @@ (KeyB :> StringValue("1")),
     KeyA :> SeqValue(<<MapValue(KeyB :> StringValue("1"))>>),
     (KeyA :> SeqValue(<<MapValue(KeyB :> StringValue("1"))>>))
         @@ (KeyADotB :> StringValue("1"))}

InitComments ==
    /\ ServiceUnused
    /\ EscapeUnused /\ ApplyUnused /\ HelmUnused
    /\ pc = "input"
    /\ \E n \in 0..MaxLines : \E lines \in [1..n -> LinePool] : \E root \in RootPool :
           rawText = [lines |-> lines, root |-> root]
    /\ \E t \in CommentTrees : flat \in Flatten(t)
    /\ comments = NoComments
    /\ annotated = {}
    /\ userValues = NoValues
    /\ oldDefaults = NoValues
    /\ newDefaults = NoValues
    /\ merged = NoValues
    /\ result = NoResult
    /\ result2 = NoResult
    /\ changes = << >>
    /\ tree = EmptyMap
    /\ nested = EmptyMap

DoExtractComments ==
    /\ pc = "input"
    /\ comments' = ExtractComments(rawText)
    /\ pc' = "extracted"
    /\ UNCHANGED <<userValues, oldDefaults, newDefaults, merged, result, result2,
                   changes, tree, flat, nested, rawText, annotated, serviceVars,
                   escapeVars, applyVars, helmVars>>

\* ToYAMLWithComments up to the node tree that yaml.Marshal writes.
DoToYAMLWithComments ==
    /\ pc = "extracted"
    /\ \E order \in Orders(DOMAIN flat) :
           /\ nested' = Unflatten(flat, order)
           /\ annotated' = attachCommentsToNode(MapValue(nested'), << >>, << >>, comments)
    /\ pc' = "annotated"
    /\ UNCHANGED <<userValues, oldDefaults, newDefaults, merged, result, result2,
                   changes, tree, flat, rawText, comments, serviceVars,
                   escapeVars, applyVars, helmVars>>

NextComments == DoExtractComments \/ DoToYAMLWithComments

SpecComments == InitComments /\ [][NextComments]_vars

\* The keys of a document that are reached through mappings only, each as
\* the sequence of the steps that lead to it.
RECURSIVE MappingKeys(_, _)
MappingKeys(val, at) ==
    IF val.kind = "map"
    THEN UNION {{Append(at, KeyStep(key))}
                    \cup MappingKeys(val.v[key], Append(at, KeyStep(key)))
                : key \in DOMAIN val.v}
    ELSE {}

\* The display form of the path of a key: its segments joined with dots.
DisplayOf(at) == Join([i \in 1..Len(at) |-> at[i].key], dot)

\* The tagged lines of the raw text with a description: the display-form
\* path and the description of each.
Documented ==
    {<<SplitN2(TrimPrefix(TrimSpace(rawText.lines[i]), paramLineStart), space)[1],
       SplitN2(TrimPrefix(TrimSpace(rawText.lines[i]), paramLineStart), space)[2]>>
     : i \in {j \in 1..Len(rawText.lines) :
                 /\ HasPrefix(TrimSpace(rawText.lines[j]), paramLineStart)
                 /\ Len(SplitN2(TrimPrefix(TrimSpace(rawText.lines[j]), paramLineStart),
                                space)) = 2
                 /\ SplitN2(TrimPrefix(TrimSpace(rawText.lines[j]), paramLineStart),
                            space)[2] # << >>}}

\* C12 (comment round trip): for a well-formed raw text, every path p that
\* a tagged line documents with a description and that is a mapping key of
\* the output document gets a head comment containing the description at
\* the key at p, and the comment of p is attached to no other key.
CommentRoundTrip ==
    (pc = "annotated" /\ rawText.root.kind # "error") =>
        \A doc \in Documented :
            \A p \in MappingKeys(MapValue(nested), << >>) :
                DisplayOf(p) = doc[1]
                => /\ \E ann \in annotated :
                          ann.at = p /\ Contains(ann.HeadComment, doc[2])
                   /\ \A ann \in annotated : ann.fullPath = doc[1] => ann.at = p

-----------------------------------------------------------------------------
(* service.Upgrade and service.FinalizeUpgrade *)

\* ApplyImageUpgrades writing the tag of the user for each change.
RECURSIVE ApplyImageUpgrades_UserTag(_, _)
ApplyImageUpgrades_UserTag(vals, upgrades) ==
    IF upgrades = << >> THEN vals
    ELSE ApplyImageUpgrades_UserTag(MapSet(vals, Head(upgrades).Path,
                                           StringValue(Head(upgrades).UserTag)),
                                    Tail(upgrades))

\* ApplyImageUpgrades: the Values it returns.  It writes to a copy of vals
\* only (images.go:81-84).
RECURSIVE ApplyImageUpgrades(_, _)
ApplyImageUpgrades(vals, upgrades) ==
    IF upgrades = << >> THEN vals
    ELSE ApplyImageUpgrades(MapSet(vals, Head(upgrades).Path,
                                   StringValue(Head(upgrades).NewDefault)),
                            Tail(upgrades))

\* The text that yaml.Marshal writes for a document: the document, and the
\* head comments of its keys.  yaml.Marshal writes {} for an empty mapping,
\* never the empty string.
YAMLText(doc, heads) == [kind |-> "yaml", tree |-> doc, heads |-> heads]

\* Values.ToYAMLWithComments
ToYAMLWithComments(vals, cm, order) ==
    LET doc == Unflatten(vals, order)
    IN  YAMLText(doc, attachCommentsToNode(MapValue(doc), << >>, << >>, cm))

\* Values.ToYAML
ToYAML(vals, order) == YAMLText(Unflatten(vals, order), {})

\* The raw text of a values file: the lines that a scanner reads, the node
\* tree and the document that yaml.Unmarshal decodes from it.
ValuesText(lines, root, data) == [lines |-> lines, root |-> root, data |-> data]

MalformedText == ValuesText(<< >>, MalformedNode, EmptyMap)

ImageTagDisplay == KeyImage \o dot \o KeyTag

\* image: {tag: <tag>}, with the given comment lines before it.
TagText(tag, lines) ==
    ValuesText(lines,
               DocumentNode(<<MappingNode(<<KeyEntry(KeyImage, << >>, << >>,
                   MappingNode(<<KeyEntry(KeyTag, << >>, << >>, ScalarNode)>>))>>)>>),
               KeyImage :> MapValue(KeyTag :> StringValue(tag)))

Versions == {"1.0", "2.0"}

ChartTexts ==
    {TagText(tag, lines) : tag \in Versions,
                           lines \in {<< >>, <<ParamLine(ImageTagDisplay, DescX)>>}}
    \cup {MalformedText}

UserTexts == {TagText(tag, << >>) : tag \in Versions \cup {"1.5"}} \cup {MalformedText}

\* The times that time.Now() returns while the output file is named.
Times == {"t1", "t2"}

OutputDir == "out"

\* filepath.Join(OutputDir, fileName), fileName naming the target version
\* and the time.
OutputPathOf(toVersion, now) == <<OutputDir, toVersion, now>>

errNotFound  == "values file not found"
errIdentical == "source and target versions are identical"
errFetchOld  == "failed to fetch old chart defaults"
errFetchNew  == "failed to fetch new chart defaults"
errParseOld  == "failed to parse old chart defaults"
errParseNew  == "failed to parse new chart defaults"
errParseUser == "failed to parse user values"
errMkdir     == "failed to create output directory"
errWrite     == "failed to write upgraded values"

\* The input carries what its ValuesFile and its Repository hold.
InitService ==
    /\ pc = "start"
    /\ \E repo \in [Versions -> ChartTexts], text \in UserTexts, exists \in BOOLEAN,
          from \in Versions, to \in Versions, dryRun \in BOOLEAN, images \in BOOLEAN :
           input = [Repository |-> repo,
                    ValuesFile |-> [exists |-> exists, text |-> text],
                    FromVersion |-> from, ToVersion |-> to,
                    DryRun |-> dryRun, UpgradeImages |-> images]
    /\ fetched = << >>
    /\ output = NoOutput
    /\ err = ""
    /\ fs = NoFiles
    /\ CommentsUnused
    /\ EscapeUnused /\ ApplyUnused /\ HelmUnused
    /\ userValues = NoValues
    /\ oldDefaults = NoValues
    /\ newDefaults = NoValues
    /\ merged = NoValues
    /\ result = NoResult
    /\ result2 = NoResult
    /\ changes = << >>
    /\ tree = EmptyMap
    /\ flat = NoValues
    /\ nested = EmptyMap

serviceIdleVars ==
    <<result2, tree, flat, nested, rawText, annotated, escapeVars, applyVars, helmVars>>

parsedVars ==
    <<userValues, oldDefaults, newDefaults, merged, result, changes, comments>>

\* Upgrade returning nil and an error.
Fail(message) ==
    /\ err' = message
    /\ output' = NoOutput
    /\ pc' = "failed"

\* The validation without the comparison of the versions.
validateInput_VersionsUnchecked(exists, from, to) ==
    IF ~exists THEN errNotFound ELSE ""

\* The validation at the head of Upgrade: the error it returns, or "".
validateInput(exists, from, to) ==
    IF ~exists THEN errNotFound
    ELSE IF from = to THEN errIdentical
    ELSE ""

UpgradeValidate ==
    /\ pc = "start"
    /\ LET message == validateInput(input.ValuesFile.exists, input.FromVersion,
                                    input.ToVersion)
       IN  IF message # "" THEN Fail(message)
           ELSE pc' = "fetching" /\ UNCHANGED <<err, output>>
    /\ UNCHANGED <<input, fetched, fs, parsedVars, serviceIdleVars>>

\* The goroutine that retrieves the old chart's values: the retrieval
\* succeeds or fails.
FetchOld ==
    /\ pc = "fetching"
    /\ "old" \notin DOMAIN fetched
    /\ \E ok \in BOOLEAN :
           fetched' = MapSet(fetched, "old", [version |-> input.FromVersion, ok |-> ok])
    /\ UNCHANGED <<pc, input, output, err, fs, parsedVars, serviceIdleVars>>

\* The goroutine that retrieves the new chart's values.
FetchNew ==
    /\ pc = "fetching"
    /\ "new" \notin DOMAIN fetched
    /\ \E ok \in BOOLEAN :
           fetched' = MapSet(fetched, "new", [version |-> input.ToVersion, ok |-> ok])
    /\ UNCHANGED <<pc, input, output, err, fs, parsedVars, serviceIdleVars>>

\* The test of the fetch errors looking at the new chart's error first.
fetchError_NewFirst(oldOk, newOk) ==
    IF ~newOk THEN errFetchNew
    ELSE IF ~oldOk THEN errFetchOld
    ELSE ""

\* The test of oldFetchErr and newFetchErr after wg.Wait(): the error that
\* Upgrade returns, or "".
fetchError(oldOk, newOk) ==
    IF ~oldOk THEN errFetchOld
    ELSE IF ~newOk THEN errFetchNew
    ELSE ""

\* The test before the output is written, without the test of the prompt.
writesOutput_IgnoringPrompt(dryRun, promptForImageTags) == ~dryRun

\* if !input.DryRun && !promptForImageTags
writesOutput(dryRun, promptForImageTags) == ~dryRun /\ ~promptForImageTags

\* Upgrade from wg.Wait() to the test before the output is written.
UpgradeProcess ==
    /\ pc = "fetching"
    /\ DOMAIN fetched = {"old", "new"}
    /\ LET oldText  == input.Repository[input.FromVersion]
           newText  == input.Repository[input.ToVersion]
           userText == input.ValuesFile.text
           fetchErr == fetchError(fetched["old"].ok, fetched["new"].ok)
       IN  IF fetchErr # "" THEN Fail(fetchErr) /\ UNCHANGED parsedVars
           ELSE IF oldText.root.kind = "error" THEN Fail(errParseOld) /\ UNCHANGED parsedVars
           ELSE IF newText.root.kind = "error" THEN Fail(errParseNew) /\ UNCHANGED parsedVars
           ELSE IF userText.root.kind = "error" THEN Fail(errParseUser) /\ UNCHANGED parsedVars
           ELSE \E old \in Flatten(oldText.data), new \in Flatten(newText.data),
                   user \in Flatten(userText.data) :
                \E order \in Orders(DOMAIN user) :
                    LET classification == Classify(user, old, order)
                        newComments == ExtractComments(newText)
                        customImageTags == DetectCustomImageTags(user, old, new, order)
                        promptForImageTags ==
                            Len(customImageTags) > 0 /\ ~input.UpgradeImages
                        imageTagsUpgraded ==
                            Len(customImageTags) > 0 /\ input.UpgradeImages
                        upgradedValues ==
                            IF imageTagsUpgraded
                            THEN ApplyImageUpgrades(Merge(user, old, new), customImageTags)
                            ELSE Merge(user, old, new)
                    IN  /\ userValues' = user
                        /\ oldDefaults' = old
                        /\ newDefaults' = new
                        /\ result' = classification
                        /\ comments' = newComments
                        /\ changes' = customImageTags
                        /\ merged' = upgradedValues
                        /\ \E serial \in Orders(DOMAIN upgradedValues) :
                               output' = [Classification     |-> classification,
                                          UpgradedYAML       |->
                                              ToYAMLWithComments(upgradedValues,
                                                                 newComments, serial),
                                          OutputPath         |-> NoPath,
                                          CustomImageTags    |-> customImageTags,
                                          ImageTagsUpgraded  |-> imageTagsUpgraded,
                                          PromptForImageTags |-> promptForImageTags]
                        /\ pc' = IF writesOutput(input.DryRun, promptForImageTags)
                                 THEN "mkdir" ELSE "returned"
                        /\ err' = err
    /\ UNCHANGED <<input, fetched, fs, serviceIdleVars>>

\* os.MkdirAll(input.OutputDir, 0755), which succeeds or fails.
UpgradeMkdirAll ==
    /\ pc = "mkdir"
    /\ \E ok \in BOOLEAN :
           IF ok THEN /\ fs' = [fs EXCEPT !.dirs = @ \cup {OutputDir}]
                      /\ pc' = "writefile"
                      /\ UNCHANGED <<err, output>>
           ELSE Fail(errMkdir) /\ fs' = fs
    /\ UNCHANGED <<input, fetched, parsedVars, serviceIdleVars>>

\* os.WriteFile(outputPath, upgradedYAML, 0644): the file is written, or it
\* cannot be opened, or it is created and the write fails.
UpgradeWriteFile ==
    /\ pc = "writefile"
    /\ \E now \in Times, outcome \in {"written", "not opened", "not written"} :
           LET outputPath == OutputPathOf(input.ToVersion, now)
           IN  IF outcome = "written"
               THEN /\ fs' = [fs EXCEPT !.files = MapSet(@, outputPath, output.UpgradedYAML)]
                    /\ output' = [output EXCEPT !.OutputPath = outputPath]
                    /\ pc' = "returned"
                    /\ err' = err
               ELSE /\ Fail(errWrite)
                    /\ fs' = IF outcome = "not opened" THEN fs
                             ELSE [fs EXCEPT !.files = MapSet(@, outputPath, NoYAML)]
    /\ UNCHANGED <<input, fetched, parsedVars, serviceIdleVars>>

\* FinalizeUpgrade, called with the output of an Upgrade that deferred to
\* the prompt, up to the test before the output is written.  The caller
\* chooses ApplyUpgrades and DryRun.
FinalizeUpgrade ==
    /\ pc = "returned"
    /\ output.PromptForImageTags
    /\ \E ApplyUpgrades \in BOOLEAN, DryRun \in BOOLEAN :
           /\ IF ApplyUpgrades /\ Len(output.CustomImageTags) > 0
              THEN \E currentValues \in Flatten(output.UpgradedYAML.tree) :
                       LET upgradedValues ==
                               ApplyImageUpgrades(currentValues, output.CustomImageTags)
                       IN  /\ merged' = upgradedValues
                           /\ \E serial \in Orders(DOMAIN upgradedValues) :
                                  output' = [output EXCEPT
                                      !.UpgradedYAML = ToYAML(upgradedValues, serial),
                                      !.ImageTagsUpgraded = TRUE,
                                      !.PromptForImageTags = FALSE]
              ELSE /\ output' = [output EXCEPT !.PromptForImageTags = FALSE]
                   /\ merged' = merged
           /\ pc' = IF DryRun THEN "finalized" ELSE "finalizeMkdir"
    /\ UNCHANGED <<input, fetched, err, fs, userValues, oldDefaults, newDefaults,
                   result, changes, comments, serviceIdleVars>>

FinalizeMkdirAll ==
    /\ pc = "finalizeMkdir"
    /\ \E ok \in BOOLEAN :
           IF ok THEN /\ fs' = [fs EXCEPT !.dirs = @ \cup {OutputDir}]
                      /\ pc' = "finalizeWritefile"
                      /\ UNCHANGED <<err, output>>
           ELSE /\ err' = errMkdir
                /\ output' = NoOutput
                /\ pc' = "finalizeFailed"
                /\ fs' = fs
    /\ UNCHANGED <<input, fetched, parsedVars, serviceIdleVars>>

FinalizeWriteFile ==
    /\ pc = "finalizeWritefile"
    /\ \E now \in Times, outcome \in {"written", "not opened", "not written"} :
           LET outputPath == OutputPathOf(input.ToVersion, now)
           IN  IF outcome = "written"
               THEN /\ fs' = [fs EXCEPT !.files = MapSet(@, outputPath, output.UpgradedYAML)]
                    /\ output' = [output EXCEPT !.OutputPath = outputPath]
                    /\ pc' = "finalized"
                    /\ err' = err
               ELSE /\ err' = errWrite
                    /\ output' = NoOutput
                    /\ pc' = "finalizeFailed"
                    /\ fs' = IF outcome = "not opened" THEN fs
                             ELSE [fs EXCEPT !.files = MapSet(@, outputPath, NoYAML)]
    /\ UNCHANGED <<input, fetched, parsedVars, serviceIdleVars>>

NextService ==
    \/ UpgradeValidate
    \/ FetchOld
    \/ FetchNew
    \/ UpgradeProcess
    \/ UpgradeMkdirAll
    \/ UpgradeWriteFile
    \/ FinalizeUpgrade
    \/ FinalizeMkdirAll
    \/ FinalizeWriteFile

SpecService == InitService /\ [][NextService]_vars

\* C13 (validation before any effect): when the values file does not exist
\* or FromVersion equals ToVersion, Upgrade returns an error, and it does so
\* with no retrieval started and no directory or file created.
UpgradeRejectsBeforeAnyEffect ==
    (/\ pc # "start"
     /\ ~input.ValuesFile.exists \/ input.FromVersion = input.ToVersion)
    => /\ pc = "failed"
       /\ err \in {errNotFound, errIdentical}
       /\ output = NoOutput
       /\ fetched = << >>
       /\ fs = NoFiles

UpgradeRejectsBeforeAnyEffectWitness ==
    /\ pc = "failed"
    /\ input.ValuesFile.exists
    /\ input.FromVersion = input.ToVersion
    /\ err = errIdentical

\* The files of the output directory that hold a whole YAML text.
WrittenFiles == {path \in DOMAIN fs.files : fs.files[path].kind = "yaml"}

WrittenFileCarriesComments ==
    \A path \in WrittenFiles :
        fs.files[path].heads =
            attachCommentsToNode(MapValue(fs.files[path].tree), << >>, << >>, comments)

-----------------------------------------------------------------------------
(* Classify applied to values of every kind *)

KindPaths == {PathOf(<<KeyA>>), PathOf(<<KeyA, KeyB>>)}

\* The integer 1, the float 1.0, the string "1", null, the empty mapping,
\* the empty sequence and three sequences.
KindValues ==
    {IntValue("1"), FloatValue("1.0"), StringValue("1"), NilValue, EmptyMapValue,
     EmptySeqValue, SeqValue(<<StringValue("1")>>), SeqValue(<<IntValue("1")>>),
     SeqValue(<<StringValue("1"), StringValue("2")>>)}

InitKinds ==
    /\ CommentsUnused
    /\ ServiceUnused
    /\ EscapeUnused /\ ApplyUnused /\ HelmUnused
    /\ pc = "input"
    /\ \E U, O \in SUBSET KindPaths :
           /\ userValues \in [U -> KindValues]
           /\ oldDefaults \in [O -> KindValues]
    /\ newDefaults = NoValues
    /\ merged = NoValues
    /\ result = NoResult
    /\ result2 = NoResult
    /\ changes = << >>
    /\ tree = EmptyMap
    /\ flat = NoValues
    /\ nested = EmptyMap

SpecKinds == InitKinds /\ [][NextClassify]_vars

\* C16 (the exact path is in the baseline): the entry of a path of
\* userValues that the baseline holds is CopiedDefault when the two values
\* have the same kind and the same contents, Customized otherwise, and its
\* DefaultValue is the baseline's value, whatever the baseline holds at the
\* ancestors of the path.
ExactPathComparesKindAndValue ==
    pc = "classified" =>
        \A i \in EntryIndexes :
            LET e == result.Entries[i] IN
            e.Path \in DOMAIN oldDefaults
            => /\ e.DefaultValue = oldDefaults[e.Path]
               /\ e.Classification =
                      IF userValues[e.Path] = oldDefaults[e.Path]
                      THEN CopiedDefault ELSE Customized

\* The integer 1 against the string "1", under an ancestor that the baseline
\* stores as an empty mapping.
ExactPathComparesKindAndValueWitness ==
    /\ pc = "classified"
    /\ PathOf(<<KeyA, KeyB>>) \in DOMAIN userValues
    /\ PathOf(<<KeyA, KeyB>>) \in DOMAIN oldDefaults
    /\ userValues[PathOf(<<KeyA, KeyB>>)] = IntValue("1")
    /\ oldDefaults[PathOf(<<KeyA, KeyB>>)] = StringValue("1")
    /\ PathOf(<<KeyA>>) \in DOMAIN oldDefaults
    /\ oldDefaults[PathOf(<<KeyA>>)] = EmptyMapValue
    /\ \E i \in EntryIndexes :
           /\ result.Entries[i].Path = PathOf(<<KeyA, KeyB>>)
           /\ result.Entries[i].Classification = Customized

-----------------------------------------------------------------------------
(* The rules of Classify for a path that the baseline lacks, and Merge       *)
(* against Classify                                                          *)

\* The proper ancestors of a path: the paths of its leading segments.
AncestorsOf(path) ==
    LET segments == Split(path, pathSeparator)
    IN  {PathOf(SubSeq(segments, 1, i)) : i \in 1..(Len(segments) - 1)}

\* The baseline holds a path strictly under the given one.
HasPathsUnder(anc, baseline) ==
    \E q \in DOMAIN baseline : IsProperAncestor(anc, q)

\* C17 (ancestor with other children): a path of userValues that the
\* baseline lacks, with no ancestor stored in the baseline as an empty
\* container and with an ancestor, at any level, under which the baseline
\* holds some path, is classified Customized with a nil DefaultValue.
AncestorWithChildrenRule ==
    pc = "classified" =>
        \A i \in EntryIndexes :
            LET e == result.Entries[i] IN
            (/\ e.Path \notin DOMAIN oldDefaults
             /\ \A anc \in AncestorsOf(e.Path) :
                    anc \in DOMAIN oldDefaults => ~IsEmptyMap(oldDefaults[anc])
             /\ \E anc \in AncestorsOf(e.Path) : HasPathsUnder(anc, oldDefaults))
            => (e.Classification = Customized /\ e.DefaultValue = NilValue)

\* A path three segments long, the baseline holding a path under its first
\* segment only.
AncestorWithChildrenRuleWitness ==
    /\ pc = "classified"
    /\ \E i \in EntryIndexes :
           LET e == result.Entries[i] IN
           /\ e.Path = PathOf(<<KeyA, KeyB, KeyC>>)
           /\ DOMAIN oldDefaults = {PathOf(<<KeyA, KeyC>>)}
           /\ e.Classification = Customized

\* C18 (Unknown means unrelated): a path of userValues is classified Unknown
\* only when the baseline lacks it and holds none of its ancestors in any
\* form: neither as a stored value (empty container, scalar or sequence) nor
\* as the parent of other paths.
UnknownOnlyWhenUnrelated ==
    pc = "classified" =>
        \A i \in EntryIndexes :
            LET e == result.Entries[i] IN
            e.Classification = Unknown
            => /\ e.Path \notin DOMAIN oldDefaults
               /\ \A anc \in AncestorsOf(e.Path) :
                      anc \notin DOMAIN oldDefaults /\ ~HasPathsUnder(anc, oldDefaults)

\* C19 (classification is local to a path): the Classification and the
\* DefaultValue of a path in Classify(userValues, baseline) are those of the
\* path in Classify of the document that holds this path only.
ClassificationIsLocal ==
    pc = "classified" =>
        \A i \in EntryIndexes :
            LET e == result.Entries[i]
                alone == Classify([p \in {e.Path} |-> userValues[p]], oldDefaults,
                                  <<e.Path>>).Entries[1]
            IN  /\ e.Classification = alone.Classification
                /\ e.DefaultValue = alone.DefaultValue

\* An Unknown path next to a sibling that the baseline lacks too.
ClassificationIsLocalWitness ==
    /\ pc = "classified"
    /\ oldDefaults = NoValues
    /\ DOMAIN userValues = {PathOf(<<KeyA, KeyB>>), PathOf(<<KeyA, KeyC>>)}
    /\ result.Unknown = 2

\* C20 (Merge agrees with Classify): after Merge, a path of userValues that
\* Classify(userValues, oldDefaults) classifies Customized or Unknown holds
\* the user's value, and a path that it classifies CopiedDefault holds what
\* newDefaults supplies: the value of newDefaults, or nothing when
\* newDefaults lacks the path.
MergeAgreesWithClassify ==
    pc = "merged" =>
        \A p \in DOMAIN userValues :
            IF VerdictOf(p) \in {Customized, Unknown}
            THEN p \in DOMAIN merged /\ merged[p] = userValues[p]
            ELSE IF p \in DOMAIN newDefaults
                 THEN p \in DOMAIN merged /\ merged[p] = newDefaults[p]
                 ELSE p \notin DOMAIN merged

-----------------------------------------------------------------------------
(* Merge's suppression of the new defaults against rule 3 of Classify *)

\* The ancestor through which Classify(userValues, oldDefaults) reaches its
\* third branch for a path (values.go:518-555), or "" when the path is
\* classified by another branch.
RuleThreeAncestor(path) ==
    IF path \in DOMAIN oldDefaults THEN << >>
    ELSE IF findParentEmptyMap(path, oldDefaults) # << >> THEN << >>
    ELSE findParentWithChildren(path, oldDefaults)

RuleThreeAncestors ==
    {RuleThreeAncestor(p) : p \in DOMAIN userValues} \ {<< >>}

\* The second loop of Merge writes the user's value at the path.
Overlaid(path) ==
    /\ path \in DOMAIN userValues
    /\ \/ path \notin DOMAIN oldDefaults
       \/ ~ValuesEqual(userValues[path], oldDefaults[path])

UnderRuleThreeAncestor(path) ==
    \E anc \in RuleThreeAncestors : HasPrefix(path, anc \o pathSeparator)

\* C21 (suppression follows rule 3): for parsed documents, a path of
\* newDefaults that the user does not overlay is absent from the result of
\* Merge when it lies under an ancestor through which Classify's
\* ancestor-with-other-children rule classified some user path, and holds
\* newDefaults' value in the result otherwise.
SuppressionFollowsRuleThree ==
    (/\ pc = "merged"
     /\ IsParsed(userValues) /\ IsParsed(oldDefaults) /\ IsParsed(newDefaults))
    => \A q \in DOMAIN newDefaults :
           ~Overlaid(q) =>
               IF UnderRuleThreeAncestor(q)
               THEN q \notin DOMAIN merged
               ELSE q \in DOMAIN merged /\ merged[q] = newDefaults[q]

-----------------------------------------------------------------------------
(* escapeKeyDots and unescapeKeyDots applied to bounded key segments *)

\* The characters of a raw key segment.
KeyChars == {":", "\\", ".", "a"}

\* The length of a raw key segment.
MaxKeyLen == 4

RawKeys == UNION {[1..n -> KeyChars] : n \in 0..MaxKeyLen}

InitEscape ==
    /\ CommentsUnused
    /\ ServiceUnused
    /\ ApplyUnused /\ HelmUnused
    /\ pc = "input"
    /\ rawKey \in RawKeys
    /\ escaped = << >>
    /\ unescaped = << >>
    /\ userValues = NoValues
    /\ oldDefaults = NoValues
    /\ newDefaults = NoValues
    /\ merged = NoValues
    /\ result = NoResult
    /\ result2 = NoResult
    /\ changes = << >>
    /\ tree = EmptyMap
    /\ flat = NoValues
    /\ nested = EmptyMap

\* flatten escaping a key of the document (values.go:433).
DoEscape ==
    /\ pc = "input"
    /\ escaped' = escapeKeyDots(rawKey)
    /\ pc' = "escaped"
    /\ UNCHANGED <<userValues, oldDefaults, newDefaults, merged, result, result2,
                   changes, tree, flat, nested, rawKey, unescaped>>
    /\ UNCHANGED <<commentVars, serviceVars, applyVars, helmVars>>

\* Unflatten unescaping a part of a path (values.go:476).
DoUnescape ==
    /\ pc = "escaped"
    /\ unescaped' = unescapeKeyDots(escaped)
    /\ pc' = "unescaped"
    /\ UNCHANGED <<userValues, oldDefaults, newDefaults, merged, result, result2,
                   changes, tree, flat, nested, rawKey, escaped>>
    /\ UNCHANGED <<commentVars, serviceVars, applyVars, helmVars>>

NextEscape == DoEscape \/ DoUnescape

SpecEscape == InitEscape /\ [][NextEscape]_vars

-----------------------------------------------------------------------------
(* ApplyImageUpgrades applied to bounded documents and lists of changes *)

ApplyPaths == ImagePaths \cup {PathOf(<<KeyA>>)}

\* The number of entries of the document.
MaxApplyEntries == 3

\* The number of changes of the list.
MaxUpgrades == 2

\* The lists of changes that DetectCustomImageTags can return: one change at
\* most for a path.
UpgradeLists ==
    {l \in UNION {[1..n -> [Path : ImagePaths, UserTag : {"1.5"}, OldDefault : {"1.0"},
                            NewDefault : {"2.0", "3.0"}, IsCustomized : {TRUE}]]
                  : n \in 0..MaxUpgrades} :
         \A i, j \in DOMAIN l : l[i].Path = l[j].Path => i = j}

InitApply ==
    /\ CommentsUnused
    /\ ServiceUnused
    /\ EscapeUnused /\ HelmUnused
    /\ pc = "input"
    /\ \E M \in SUBSET ApplyPaths :
           /\ Cardinality(M) <= MaxApplyEntries
           /\ merged \in [M -> ImageValues]
    /\ changes \in UpgradeLists
    /\ upgraded = NoValues
    /\ upgraded2 = NoValues
    /\ userValues = NoValues
    /\ oldDefaults = NoValues
    /\ newDefaults = NoValues
    /\ result = NoResult
    /\ result2 = NoResult
    /\ tree = EmptyMap
    /\ flat = NoValues
    /\ nested = EmptyMap

\* ApplyImageUpgrades(merged, changes)
DoApply ==
    /\ pc = "input"
    /\ upgraded' = ApplyImageUpgrades(merged, changes)
    /\ pc' = "applied"
    /\ UNCHANGED <<userValues, oldDefaults, newDefaults, merged, result, result2,
                   changes, tree, flat, nested, upgraded2>>
    /\ UNCHANGED <<commentVars, serviceVars, escapeVars, helmVars>>

\* ApplyImageUpgrades(upgraded, changes): the same changes applied to the
\* document that the first call returned.
DoApplyAgain ==
    /\ pc = "applied"
    /\ upgraded2' = ApplyImageUpgrades(upgraded, changes)
    /\ pc' = "appliedTwice"
    /\ UNCHANGED <<userValues, oldDefaults, newDefaults, merged, result, result2,
                   changes, tree, flat, nested, upgraded>>
    /\ UNCHANGED <<commentVars, serviceVars, escapeVars, helmVars>>

NextApply == DoApply \/ DoApplyAgain

SpecApply == InitApply /\ [][NextApply]_vars

ListedPaths == {changes[i].Path : i \in 1..Len(changes)}

\* What a call of ApplyImageUpgrades on the document before has to leave in
\* the document after.
AppliedTo(before, after) ==
    /\ DOMAIN after = DOMAIN before \cup ListedPaths
    /\ \A i \in 1..Len(changes) :
           after[changes[i].Path] = StringValue(changes[i].NewDefault)
    /\ \A p \in DOMAIN before \ ListedPaths : after[p] = before[p]
    /\ changes = << >> => after = before

\* C23 (the apply step): the call of ApplyImageUpgrades leaves its input
\* document and the list as they were and returns a document that holds the
\* NewDefault of each change at its path and the input's value at every
\* other path (the input itself for an empty list); a second call with the
\* same list on the returned document returns that document again.
ApplyOverwritesListedPathsOnly ==
    [][/\ (pc = "input" /\ pc' = "applied")
          => (merged' = merged /\ changes' = changes /\ AppliedTo(merged, upgraded'))
       /\ (pc = "applied" /\ pc' = "appliedTwice")
          => (upgraded' = upgraded /\ changes' = changes /\ upgraded2' = upgraded)]_vars

\* Two changes were applied twice to a document that held another tag at the
\* path of one of them, lacked the path of the other, and held a third path.
ApplyOverwritesListedPathsOnlyWitness ==
    /\ pc = "appliedTwice"
    /\ Len(changes) = 2
    /\ \E i \in 1..2 : /\ changes[i].Path \in DOMAIN merged
                       /\ merged[changes[i].Path] # upgraded[changes[i].Path]
    /\ \E i \in 1..2 : changes[i].Path \notin DOMAIN merged
    /\ DOMAIN merged \ ListedPaths # {}

-----------------------------------------------------------------------------
(* The two retrievals of Upgrade *)

\* No parse, Classify, Merge or write step of Upgrade has run.
NothingProcessed ==
    /\ userValues = NoValues /\ oldDefaults = NoValues /\ newDefaults = NoValues
    /\ merged = NoValues /\ result = NoResult /\ changes = << >>
    /\ comments = NoComments
    /\ output = NoOutput
    /\ fs = NoFiles

-----------------------------------------------------------------------------
(* The size of the upgraded file *)

\* C25 (the upgraded file is not smaller than the new defaults): the
\* upgraded output, parsed and flattened again, holds at least as many paths
\* as newDefaults.
UpgradedHasNewDefaultsCount ==
    pc = "upgraded" => Cardinality(DOMAIN flat) >= Cardinality(DOMAIN newDefaults)

-----------------------------------------------------------------------------
(* The user's values in the serialized tree *)

\* C26 (user content survives serialization): the tree that Unflatten builds
\* from the result of Merge holds the user's value at every path that Merge
\* overlaid with it, whatever newDefaults stores at the ancestors of the
\* path.
UserContentSurvivesSerialization ==
    pc = "upgraded" =>
        \A p \in DOMAIN userValues :
            Overlaid(p) => Lookup(nested, SegmentsOf(p)) = userValues[p]

-----------------------------------------------------------------------------
(* The counters of a ClassificationResult *)

\* The number of entries of result that carry the classification.
EntriesWith(classification) ==
    Cardinality({i \in EntryIndexes : result.Entries[i].Classification = classification})

\* C27 (count invariant): in the result of Classify the three counters add
\* up to Total, which is the number of entries and the number of paths of
\* userValues; every path of userValues has exactly one entry; and each
\* counter is the number of entries that carry its classification.
ClassifyCountsAddUp ==
    pc \in {"classified", "classifiedTwice"} =>
        /\ result.Customized + result.CopiedDefault + result.Unknown = result.Total
        /\ result.Total = Len(result.Entries)
        /\ Len(result.Entries) = Cardinality(DOMAIN userValues)
        /\ \A p \in DOMAIN userValues :
               Cardinality({i \in EntryIndexes : result.Entries[i].Path = p}) = 1
        /\ \A i \in EntryIndexes : result.Entries[i].Path \in DOMAIN userValues
        /\ EntriesWith(Customized) = result.Customized
        /\ EntriesWith(CopiedDefault) = result.CopiedDefault
        /\ EntriesWith(Unknown) = result.Unknown

\* A result with an entry of each classification, the Customized ones
\* reached through an exact path and through a parent with children.
ClassifyCountsAddUpWitness ==
    /\ pc = "classified"
    /\ result.CopiedDefault >= 1 /\ result.Unknown >= 1 /\ result.Customized >= 1
    /\ \E p \in DOMAIN userValues :
           /\ p \notin DOMAIN oldDefaults
           /\ findParentEmptyMap(p, oldDefaults) = << >>
           /\ findParentWithChildren(p, oldDefaults) # << >>

-----------------------------------------------------------------------------
(* The image tags through Classify, Merge, DetectCustomImageTags and         *)
(* ApplyImageUpgrades                                                        *)

\* Three tags, so that the user's tag, the old default and the new default
\* of a path can be pairwise different.
TagValues == {StringValue("1.0"), StringValue("1.5"), StringValue("2.0")}

\* The number of entries of the three documents, together.
MaxTagEntries == 6

InitTags ==
    /\ CommentsUnused
    /\ ServiceUnused
    /\ EscapeUnused /\ ApplyUnused /\ HelmUnused
    /\ pc = "input"
    /\ \E U, O, N \in SUBSET ImagePaths :
           /\ Cardinality(U) + Cardinality(O) + Cardinality(N) <= MaxTagEntries
           /\ userValues \in [U -> TagValues]
           /\ oldDefaults \in [O -> TagValues]
           /\ newDefaults \in [N -> TagValues]
    /\ merged = NoValues
    /\ result = NoResult
    /\ result2 = NoResult
    /\ changes = << >>
    /\ tree = EmptyMap
    /\ flat = NoValues
    /\ nested = EmptyMap

\* The steps of service.Upgrade on three parsed documents, with the detected
\* changes applied (part_004:123-152).
DoUpgradeImages ==
    /\ pc = "input"
    /\ \E order \in Orders(DOMAIN userValues) :
           result' = Classify(userValues, oldDefaults, order)
    /\ merged' = Merge(userValues, oldDefaults, newDefaults)
    /\ \E order \in Orders(DOMAIN userValues) :
           changes' = DetectCustomImageTags(userValues, oldDefaults, newDefaults, order)
    /\ upgraded' = ApplyImageUpgrades(merged', changes')
    /\ pc' = "tagsApplied"
    /\ UNCHANGED <<userValues, oldDefaults, newDefaults, result2, tree, flat,
                   nested, upgraded2>>
    /\ UNCHANGED <<commentVars, serviceVars, escapeVars, helmVars>>

NextTags == DoUpgradeImages

SpecTags == InitTags /\ [][NextTags]_vars

\* C28 (Detector, Classifier and Merger agree on image tags): every detected
\* change names a path that Classify reports Customized and at which the
\* result of Merge holds the change's UserTag; after ApplyImageUpgrades the
\* path holds newDefaults' tag, and every other path is as Merge left it.
ImageTagsAgree ==
    pc = "tagsApplied" =>
        /\ \A i \in 1..Len(changes) :
               LET p == changes[i].Path
               IN  /\ \E j \in EntryIndexes :
                          /\ result.Entries[j].Path = p
                          /\ result.Entries[j].Classification = Customized
                   /\ p \in DOMAIN merged
                   /\ merged[p] = StringValue(changes[i].UserTag)
                   /\ p \in DOMAIN newDefaults
                   /\ upgraded[p] = newDefaults[p]
        /\ DOMAIN upgraded = DOMAIN merged
        /\ \A q \in DOMAIN merged \ ListedPaths : upgraded[q] = merged[q]

\* A change was detected and applied, next to a path that was left alone.
ImageTagsAgreeWitness ==
    /\ pc = "tagsApplied"
    /\ Len(changes) >= 1
    /\ upgraded # merged
    /\ DOMAIN merged \ ListedPaths # {}

-----------------------------------------------------------------------------
(* The two ways of accepting the image-tag upgrades *)

\* The flattened documents of the upgraded file when the detected changes
\* are applied to the result of Merge, as Upgrade does with UpgradeImages.
AcceptedValues ==
    Reparsed(ApplyImageUpgrades(Merge(userValues, oldDefaults, newDefaults), changes))

\* FinalizeUpgrade has run and has not failed.
Finalizing == pc \in {"finalizeMkdir", "finalizeWritefile", "finalized"}

-----------------------------------------------------------------------------
(* helm.GetValuesFileByVersion, called twice at once by Upgrade *)

\* The two goroutines of Upgrade and the chart version each one asks for.
Calls == {"old", "new"}

VersionOf(call) == IF call = "old" THEN "1.0" ELSE "2.0"

RepoURL == "https://charts.example"

\* fmt.Sprintf("hvu-%x", hash[:8]): the name that addNewRepo generates for
\* RepoURL.
HashedName == "hvu-hash"

Entry(name, url) == [Name |-> name, URL |-> url]

\* The repository config before Upgrade: empty or missing, holding another
\* repository, or holding RepoURL under a name the user chose.
InitialConfigs ==
    {<< >>,
     <<Entry("other", "https://other.example")>>,
     <<Entry("mine", RepoURL)>>}

errAddRepo   == "failed to add repository"
errPullAfter == "failed to pull chart after adding repo"

NoCallResult == [values |-> "", err |-> ""]

InitHelm ==
    /\ CommentsUnused
    /\ ServiceUnused
    /\ EscapeUnused /\ ApplyUnused
    /\ pc = "helm"
    /\ repoConfig \in InitialConfigs
    /\ remote \in [direct : BOOLEAN, reachable : BOOLEAN, versions : SUBSET Versions]
    /\ callPc = [c \in Calls |-> "tryPull"]
    /\ callName = [c \in Calls |-> ""]
    /\ callRepos = [c \in Calls |-> << >>]
    /\ callResult = [c \in Calls |-> NoCallResult]
    /\ userValues = NoValues
    /\ oldDefaults = NoValues
    /\ newDefaults = NoValues
    /\ merged = NoValues
    /\ result = NoResult
    /\ result2 = NoResult
    /\ changes = << >>
    /\ tree = EmptyMap
    /\ flat = NoValues
    /\ nested = EmptyMap

helmIdleVars == <<valueVars, commentVars, serviceVars, escapeVars, applyVars>>

\* GetValuesFileByVersion returning the values of the chart.
Return(call, values) ==
    /\ callResult' = [callResult EXCEPT ![call] = [values |-> values, err |-> ""]]
    /\ callPc' = [callPc EXCEPT ![call] = "done"]

\* GetValuesFileByVersion returning an error.
ReturnError(call, message) ==
    /\ callResult' = [callResult EXCEPT ![call] = [values |-> "", err |-> message]]
    /\ callPc' = [callPc EXCEPT ![call] = "done"]

\* findRepoByURL's loop over the entries of a loaded file: the name of the
\* first entry with the URL, or "".
RECURSIVE findRepoByURL(_, _)
findRepoByURL(repos, url) ==
    IF repos = << >> THEN ""
    ELSE IF Head(repos).URL = url THEN Head(repos).Name
    ELSE findRepoByURL(Tail(repos), url)

\* The pull of a chart by the name of its repository: Helm looks the name up
\* in the repository config and the version up in the repository.
pullsFromRepo(config, name, version, versions) ==
    /\ \E i \in 1..Len(config) : config[i].Name = name
    /\ version \in versions

\* The first tryPullChart, with the URL of the repository.
TryPullChart(call) ==
    /\ callPc[call] = "tryPull"
    /\ IF remote.direct /\ VersionOf(call) \in remote.versions
       THEN Return(call, VersionOf(call))
       ELSE /\ callPc' = [callPc EXCEPT ![call] = "find"]
            /\ UNCHANGED callResult
    /\ UNCHANGED <<repoConfig, remote, callName, callRepos>>
    /\ UNCHANGED helmIdleVars

\* addRepoIfNotExists calling findRepoByURL, which loads the config.
FindRepoByURL(call) ==
    /\ callPc[call] = "find"
    /\ LET existingRepoName == findRepoByURL(repoConfig, RepoURL)
       IN  /\ callName' = [callName EXCEPT ![call] = existingRepoName]
           /\ callPc' = [callPc EXCEPT ![call] =
                            IF existingRepoName # "" THEN "update" ELSE "load"]
    /\ UNCHANGED <<repoConfig, remote, callRepos, callResult>>
    /\ UNCHANGED helmIdleVars

\* updateRepoIndex for the repository that was found.
UpdateRepoIndex(call) ==
    /\ callPc[call] = "update"
    /\ IF remote.reachable
       THEN /\ callPc' = [callPc EXCEPT ![call] = "pull"]
            /\ UNCHANGED callResult
       ELSE ReturnError(call, errAddRepo)
    /\ UNCHANGED <<repoConfig, remote, callName, callRepos>>
    /\ UNCHANGED helmIdleVars

\* addNewRepo loading the config (a missing file gives repo.NewFile(), the
\* empty list) and generating the name.
AddNewRepoLoad(call) ==
    /\ callPc[call] = "load"
    /\ callRepos' = [callRepos EXCEPT ![call] = repoConfig]
    /\ callName' = [callName EXCEPT ![call] = HashedName]
    /\ callPc' = [callPc EXCEPT ![call] = "download"]
    /\ UNCHANGED <<repoConfig, remote, callResult>>
    /\ UNCHANGED helmIdleVars

\* addNewRepo downloading the index, then repos.Add(entry), which appends.
AddNewRepoDownload(call) ==
    /\ callPc[call] = "download"
    /\ IF remote.reachable
       THEN /\ callRepos' = [callRepos EXCEPT
                                ![call] = Append(@, Entry(callName[call], RepoURL))]
            /\ callPc' = [callPc EXCEPT ![call] = "truncate"]
            /\ UNCHANGED callResult
       ELSE ReturnError(call, errAddRepo) /\ UNCHANGED callRepos
    /\ UNCHANGED <<repoConfig, remote, callName>>
    /\ UNCHANGED helmIdleVars

\* repos.WriteFile opening the config with O_TRUNC.
AddNewRepoTruncate(call) ==
    /\ callPc[call] = "truncate"
    /\ repoConfig' = << >>
    /\ callPc' = [callPc EXCEPT ![call] = "write"]
    /\ UNCHANGED <<remote, callName, callRepos, callResult>>
    /\ UNCHANGED helmIdleVars

\* repos.WriteFile writing the entries it holds.
AddNewRepoWrite(call) ==
    /\ callPc[call] = "write"
    /\ repoConfig' = callRepos[call]
    /\ callPc' = [callPc EXCEPT ![call] = "pull"]
    /\ UNCHANGED <<remote, callName, callRepos, callResult>>
    /\ UNCHANGED helmIdleVars

\* The second tryPullChart, with the name of the repository.
PullFromRepo(call) ==
    /\ callPc[call] = "pull"
    /\ IF pullsFromRepo(repoConfig, callName[call], VersionOf(call), remote.versions)
       THEN Return(call, VersionOf(call))
       ELSE ReturnError(call, errPullAfter)
    /\ UNCHANGED <<repoConfig, remote, callName, callRepos>>
    /\ UNCHANGED helmIdleVars

NextHelm ==
    \/ \E call \in Calls : TryPullChart(call)
    \/ \E call \in Calls : FindRepoByURL(call)
    \/ \E call \in Calls : UpdateRepoIndex(call)
    \/ \E call \in Calls : AddNewRepoLoad(call)
    \/ \E call \in Calls : AddNewRepoDownload(call)
    \/ \E call \in Calls : AddNewRepoTruncate(call)
    \/ \E call \in Calls : AddNewRepoWrite(call)
    \/ \E call \in Calls : PullFromRepo(call)

SpecHelm == InitHelm /\ [][NextHelm]_vars

\* What GetValuesFileByVersion returns when it runs alone against a
\* repository that cannot be pulled from by URL: with the index downloaded
\* the repository is in the config when the chart is pulled by name.
AloneResult(call) ==
    IF ~remote.reachable THEN [values |-> "", err |-> errAddRepo]
    ELSE IF VersionOf(call) \in remote.versions
    THEN [values |-> VersionOf(call), err |-> ""]
    ELSE [values |-> "", err |-> errPullAfter]

EntriesFor(url) == {i \in 1..Len(repoConfig) : repoConfig[i].URL = url}

\* C30 (the two calls do not interfere): when neither chart can be pulled by
\* URL and the repository is reachable, then once both calls have returned
\* the config holds exactly one entry for the URL and each call has returned
\* what it returns when it runs alone.
CallsDoNotInterfere ==
    (/\ \A call \in Calls : callPc[call] = "done"
     /\ ~remote.direct
     /\ remote.reachable)
    => /\ Cardinality(EntriesFor(RepoURL)) = 1
       /\ \A call \in Calls : callResult[call] = AloneResult(call)

====
